---------------------------- MODULE Spec2Model ----------------------------
(***************************************************************************)
(* A model of andi: the enhanced suffix array (esa.c), the match engine,   *)
(* the anchor-based divergence estimator (process.c), the mutation-count   *)
(* matrix (model.c), the pairwise driver (dist_hack.h) and the bootstrap.  *)
(* Strings are sequences of byte values; C arrays are functions on 0..n-1. *)
(***************************************************************************)
EXTENDS Integers, Sequences, FiniteSets, TLC

(***************************************************************************)
(* Byte values of the characters the program distinguishes.                *)
(***************************************************************************)
ChNul == 0
ChBang == 33
ChHash == 35
ChSemi == 59
ChA == 65
ChC == 67
ChG == 71
ChT == 84

\* global.h: the evolutionary models.
M_RAW == 0
M_JC == 1
M_KIMURA == 2
M_LOGDET == 3

\* model.h: the cells of the mutation matrix the model names.
AtoA == 0
AtoC == 1
AtoG == 2
AtoT == 3
CtoA == 4
CtoC == 5
CtoG == 6
CtoT == 7
GtoA == 8
GtoC == 9
GtoG == 10
GtoT == 11
TtoA == 12
TtoC == 13
TtoG == 14
TtoT == 15
MUTCOUNTS == 16

\* dist_hack.h: what dist_min starts from.
DIST_MIN_START == 9999
\* dist_hack.h compares distances with CUTOFF, a fraction between 0 and 1
\* that src/ does not define; the model takes 1 / CUTOFF_INVERSE.
CUTOFF_INVERSE == 2

(***************************************************************************)
(* Bounds of the model.                                                    *)
(***************************************************************************)
\* The prefix length up to which lcp-intervals are cached.  The program sets
\* CACHE_LENGTH to 10 (esa.c:35); the model scales the table down.
CACHE_LENGTH == 3
\* Longest subject (forward strand) of the match-engine specification.
MaxSubject == 4
\* Longest query of the match-engine specification.
MaxQuery == 4
\* Longest subject of the anchor specification.
MaxAnchorSubject == 5
\* Longest shustring length the table of cumulative probabilities covers.
MaxX == 4
\* The number of steps probabilities are measured in: ProbScale stands for 1.0.
ProbScale == 4
\* The number of sequences the drivers compare.
NSeq == 3
\* The largest number given with -b.
MaxBoot == 3
\* The largest count in a cell of a mutation matrix of the bootstrap.
MaxCount == 2
\* The count of a cell with many matches in a mutation matrix of a run.
BigCount == 240
\* The largest number of bytes read for a sequence.
MaxInput == 3
\* The largest number of aligned pairs handed to model_count.
MaxPairs == 2
\* The largest number of bytes handed to model_count_equal.
MaxEqual == 4

VARIABLES
    pc,         \* the phase of the run the specification is in
    wild,       \* the value an out-of-bounds or uninitialised read yields
    subject,    \* seq_t.S: the forward strand of the subject
    esa,        \* esa_s: the enhanced suffix array of the subject
    qry,        \* the query handed to the match engine
    resCached,  \* the result of get_match_cached
    resPlain,   \* the result of get_match
    minLength,  \* the minimum anchor length dist_anchor works with
    MODEL,      \* global MODEL: the evolutionary model
    dist,       \* the result of dist_anchor
    cumProb,    \* shustring_cum_prob(x, g / 2, l) as a table over x
    oneMinusP,  \* 1 - p, in the units of cumProb
    anchorLen,  \* what min_anchor_length returned
    lowMemory,  \* FLAGS & F_LOW_MEMORY: the inner-parallel driver runs
    THREADS,    \* global THREADS: the number of worker threads
    distOf,     \* the distance dist_anchor yields for each pair (i, j)
    table0,     \* the tables M and D as malloc returned them
    table,      \* the tables M and D of the driver
    iter,       \* for each subject i, how far its loop iteration has come
    accesses,   \* the reads and writes of table cells so far, by worker
    optarg,     \* the number given with -b
    BOOTSTRAP,  \* global BOOTSTRAP
    extraVerbose, \* FLAGS & F_EXTRA_VERBOSE
    counted,    \* the mutation matrices M(i, j) calculate_distances holds
    printed,    \* the distance matrices printed so far, in order
    FLAGS,      \* global FLAGS: the set of the flags that are set
    warned,     \* the warnings written to stderr so far
    lens,       \* seq->len of the sequences main has read
    status,     \* the exit status of the process; -1 while it runs
    input,      \* the bytes read for a sequence, handed to seq_init
    seq,        \* seq_t: S, len and, for a subject, RS and RSlen
    revs,       \* what revcomp returned, call after call
    walk,       \* the start and the end of the substring descended along
    node,       \* the lcp-interval the descent has reached
    heap,       \* for each buffer of the current subject: none, live or freed
    leaked,     \* the buffers still live when the worker went on to the next subject
    faults,     \* the frees of a freed buffer and the reads of one, so far
    cur,        \* i of distMatrix: the subject the worker is at
    at,         \* how far the current step of the worker has come
    loop,       \* the locals of dist_anchor while its loop runs
    turns       \* the iterations the loop of dist_anchor has executed

esaVars == <<wild, subject, esa>>
matchVars == <<qry, resCached, resPlain>>
anchorVars == <<minLength, MODEL, dist>>
thresholdVars == <<cumProb, oneMinusP, anchorLen>>
driverVars == <<lowMemory, THREADS, distOf, table0, table, iter, accesses>>
bootVars == <<optarg, BOOTSTRAP, extraVerbose, counted, printed>>
runVars == <<FLAGS, warned, lens, status>>
seqVars == <<input, seq, revs>>
descVars == <<walk, node>>
resVars == <<heap, leaked, faults, cur, at>>
loopVars == <<loop, turns>>
vars == <<pc, esaVars, matchVars, anchorVars, thresholdVars, driverVars, bootVars,
          runVars, seqVars, descVars, resVars, loopVars>>

(***************************************************************************)
(* Strings.                                                                *)
(***************************************************************************)
\* s[k] of a NUL-terminated C string held in the sequence s (0-based).
At(s, k) == IF k >= 0 /\ k < Len(s) THEN s[k + 1] ELSE ChNul

\* All strings over the alphabet sigma of length lo..hi.
RECURSIVE StringsOfLen(_, _)
StringsOfLen(sigma, n) ==
    IF n = 0 THEN {<<>>}
    ELSE {Append(s, c) : s \in StringsOfLen(sigma, n - 1), c \in sigma}

Strings(sigma, lo, hi) == UNION {StringsOfLen(sigma, n) : n \in lo..hi}

\* The C array holding f[lo], ..., f[hi], written element by element.
RECURSIVE ArrayFrom(_, _, _)
ArrayFrom(f, lo, hi) ==
    IF lo > hi THEN <<>> ELSE (lo :> f[lo]) @@ ArrayFrom(f, lo + 1, hi)

RECURSIVE Pow4(_)
Pow4(n) == IF n = 0 THEN 1 ELSE 4 * Pow4(n - 1)

(***************************************************************************)
(* sequence.c: reverse complement and the subject's derived form.          *)
(***************************************************************************)
\* The switch of revcomp: the complement of one byte; 0 for a byte the
\* switch skips (default: continue).
Complement(c) ==
    CASE c = ChA -> ChT
      [] c = ChT -> ChA
      [] c = ChG -> ChC
      [] c = ChC -> ChG
      [] c = ChBang -> ChSemi
      [] OTHER -> ChNul

\* The do-while of revcomp: it walks str from its last byte to its first and
\* appends the complement of every byte the switch knows.
RECURSIVE RevcompLoop(_)
RevcompLoop(str) ==
    IF Len(str) = 0 THEN <<>>
    ELSE LET d == Complement(str[Len(str)])
             rest == RevcompLoop(SubSeq(str, 1, Len(str) - 1))
         IN  IF d = ChNul THEN rest ELSE <<d>> \o rest

\* A call that does not return (the process is killed).
NoReturn == <<-1>>

\* revcomp.  With len = 0 the loop starts at str[-1] and, its body run once,
\* --len wraps around: the call reads and writes out of bounds until the
\* process is killed.
revcomp(str) == IF Len(str) = 0 THEN NoReturn ELSE RevcompLoop(str)

\* catcomp: revcomp(s), a '#' at index len, then s.  revcomp leaves the bytes
\* behind a shortened reverse complement as malloc returned them (w).
catcompForwardFirst(s, w) == s \o <<ChHash>> \o revcomp(s)

catcomp(s, w) ==
    LET rev == revcomp(s)
        pad == [k \in 1..Len(s) |-> IF k <= Len(rev) THEN rev[k] ELSE w]
    IN  pad \o <<ChHash>> \o s

(***************************************************************************)
(* esa.c: the suffix array oracle, LCP (PHI algorithm), CLD, FVC.          *)
(***************************************************************************)
code2char(code) ==
    CASE code % 4 = 0 -> ChA
      [] code % 4 = 1 -> ChC
      [] code % 4 = 2 -> ChG
      [] code % 4 = 3 -> ChT

char2code(c) ==
    CASE c = ChA -> 0
      [] c = ChC -> 1
      [] c = ChG -> 2
      [] c = ChT -> 3
      [] OTHER -> -1

\* Whether the suffix of s at p sorts before the suffix at q (bytes compared
\* as unsigned values, the shorter suffix first).
RECURSIVE SuffixLess(_, _, _)
SuffixLess(s, p, q) ==
    IF p >= Len(s) THEN q < Len(s)
    ELSE IF q >= Len(s) THEN FALSE
    ELSE IF At(s, p) # At(s, q) THEN At(s, p) < At(s, q)
    ELSE SuffixLess(s, p + 1, q + 1)

\* esa_init_SA: the suffix array the oracle (divsufsort) returns.
esa_init_SA(s) ==
    LET n == Len(s)
        rank == ArrayFrom([p \in 0..(n - 1) |->
                             Cardinality({q \in 0..(n - 1) : SuffixLess(s, q, p)})],
                          0, n - 1)
    IN  ArrayFrom([i \in 0..(n - 1) |-> CHOOSE p \in 0..(n - 1) : rank[p] = i],
                  0, n - 1)

\* The inner while of esa_init_LCP: extend l while the two suffixes agree.
RECURSIVE LcpExtend(_, _, _, _)
LcpExtend(s, k, i, l) ==
    IF At(s, k + l) = At(s, i + l)
    THEN LcpExtend(s, k, i, l + 1)
    ELSE l

\* The sweep of esa_init_LCP over i = 0..len-1 with the running l; plcp is
\* the PLCP array filled so far (it shares its memory with PHI).
RECURSIVE PlcpSweep(_, _, _, _, _)
PlcpSweep(s, phi, i, l, plcp) ==
    IF i >= Len(s) THEN plcp
    ELSE LET k == phi[i]
         IN  IF k # -1
             THEN LET l2 == LcpExtend(s, k, i, l)
                      l3 == IF l2 - 1 < 0 THEN 0 ELSE l2 - 1
                  IN  PlcpSweep(s, phi, i + 1, l3, [plcp EXCEPT ![i] = l2])
             ELSE PlcpSweep(s, phi, i + 1, l, [plcp EXCEPT ![i] = -1])

esa_init_LCP(s, sa) ==
    LET n == Len(s)
        phi == ArrayFrom([p \in 0..(n - 1) |->
                            LET i == CHOOSE x \in 0..(n - 1) : sa[x] = p
                            IN  IF i = 0 THEN -1 ELSE sa[i - 1]],
                         0, n - 1)
        plcp == PlcpSweep(s, phi, 0, 0, phi)
    IN  ArrayFrom([i \in 0..n |-> IF i = 0 \/ i = n THEN -1 ELSE plcp[sa[i]]],
                  0, n)

\* esa_init_CLD keeps a stack of (idx, lcp) pairs; the top is the last
\* element of the sequence.
Top(stack) == stack[Len(stack)]
Pop(stack) == SubSeq(stack, 1, Len(stack) - 1)

\* while (top->lcp == last.lcp) { R(CLD, top->idx) = last.idx; last = *top--; }
RECURSIVE CldChain(_, _, _)
CldChain(cld, stack, last) ==
    IF Len(stack) > 0 /\ Top(stack).lcp = last.lcp
    THEN CldChain([cld EXCEPT ![Top(stack).idx] = last.idx], Pop(stack), Top(stack))
    ELSE [cld |-> cld, stack |-> stack, last |-> last]

\* while (LCP[k] < top->lcp) { ... }
RECURSIVE CldWhile(_, _, _, _)
CldWhile(lcp, cld, stack, k) ==
    IF Len(stack) > 0 /\ lcp[k] < Top(stack).lcp
    THEN LET c == CldChain(cld, Pop(stack), Top(stack))
             cld2 == IF lcp[k] < Top(c.stack).lcp
                     THEN [c.cld EXCEPT ![Top(c.stack).idx] = c.last.idx]
                     ELSE [c.cld EXCEPT ![k - 1] = c.last.idx]
         IN  CldWhile(lcp, cld2, c.stack, k)
    ELSE [cld |-> cld, stack |-> stack]

\* for (k = 1; k < len + 1; k++) { while ...; push (k, LCP[k]) }
RECURSIVE CldFor(_, _, _, _, _)
CldFor(lcp, cld, stack, k, n) ==
    IF k >= n + 1 THEN cld
    ELSE LET w == CldWhile(lcp, cld, stack, k)
         IN  CldFor(lcp, w.cld, Append(w.stack, [idx |-> k, lcp |-> lcp[k]]), k + 1, n)

\* esa_init_CLD: the array comes from malloc, so an entry never written
\* holds an indeterminate value (w); R(CLD, 0) = len + 1 is set first.
esa_init_CLD(lcp, n, w) ==
    CldFor(lcp, ArrayFrom([i \in 0..n |-> IF i = 0 THEN n + 1 ELSE w], 0, n),
           <<[idx |-> 0, lcp |-> -1]>>, 1, n)

esa_init_FVCAtSA(s, sa, lcp) ==
    ArrayFrom([i \in 0..(Len(s) - 1) |-> At(s, sa[i])], 0, Len(s) - 1)

\* esa_init_FVC: FVC[i] = S[SA[i] + LCP[i]].
esa_init_FVC(s, sa, lcp) ==
    ArrayFrom([i \in 0..(Len(s) - 1) |-> At(s, sa[i] + lcp[i])], 0, Len(s) - 1)

(***************************************************************************)
(* esa.c: reads of the ESA's arrays.  A read outside an array, or of an    *)
(* entry never written, yields the indeterminate value self.w.             *)
(***************************************************************************)
SAat(self, i) == IF i \in DOMAIN self.SA THEN self.SA[i] ELSE self.w
LCPat(self, i) == IF i \in DOMAIN self.LCP THEN self.LCP[i] ELSE self.w
CLDat(self, i) == IF i \in DOMAIN self.CLD THEN self.CLD[i] ELSE self.w
FVCat(self, i) == IF i \in DOMAIN self.FVC THEN self.FVC[i] ELSE self.w
Sat(self, k) == IF k >= 0 /\ k <= self.len THEN At(self.S, k) ELSE self.w

\* The empty lcp-interval: i == -1 && j == -1.
IsEmpty(ij) == ij.i = -1 /\ ij.j = -1

IntervalFinalKeepStart(self, ij, a, i, m) ==
    IF (IF i # ij.i THEN FVCat(self, i) = a
                    ELSE Sat(self, SAat(self, i) + ij.l) = a)
    THEN [i |-> ij.i, j |-> ij.j, l |-> LCPat(self, m), m |-> m]
    ELSE [ij EXCEPT !.i = -1, !.j = -1]

\* The tail of get_interval ("final sanity check").
IntervalFinal(self, ij, a, i, m) ==
    IF (IF i # ij.i THEN FVCat(self, i) = a
                    ELSE Sat(self, SAat(self, i) + ij.l) = a)
    THEN [i |-> i, j |-> ij.j, l |-> LCPat(self, m), m |-> m]
    ELSE [ij EXCEPT !.i = -1, !.j = -1]

\* The do-while of get_interval, entered at SoSueMe with the character c.
RECURSIVE IntervalLoop(_, _, _, _, _, _)
IntervalLoop(self, ij, a, i, m, c) ==
    IF c = a
    THEN LET n == CLDat(self, m - 1)
         IN  [i |-> i, j |-> m - 1, m |-> n, l |-> LCPat(self, n)]
    ELSE IF c > a THEN IntervalFinal(self, ij, a, i, m)
    ELSE IF m = ij.j THEN IntervalFinal(self, ij, a, m, m)
    ELSE LET m2 == CLDat(self, m)
         IN  IF LCPat(self, m2) = ij.l
             THEN IntervalLoop(self, ij, a, m, m2, FVCat(self, m))
             ELSE IntervalFinal(self, ij, a, m, m2)

get_intervalAcceptSingleton(self, ij, a) ==
    IF ij.i = ij.j
    THEN ij
    ELSE IntervalLoop(self, ij, a, ij.i, ij.m, Sat(self, SAat(self, ij.i) + ij.l))

\* get_interval: from the lcp-interval of w to the lcp-interval of wa.
get_interval(self, ij, a) ==
    IF ij.i = ij.j
    THEN IF Sat(self, SAat(self, ij.i) + ij.l) # a
         THEN [ij EXCEPT !.i = -1, !.j = -1]
         ELSE ij
    ELSE IntervalLoop(self, ij, a, ij.i, ij.m, Sat(self, SAat(self, ij.i) + ij.l))

\* for (; k < qlen && S[p + k]; k++) if (S[p + k] != query[k]) break;
RECURSIVE SingletonExtend(_, _, _, _, _)
SingletonExtend(self, query, qlen, p, k) ==
    IF k < qlen /\ Sat(self, p + k) # ChNul /\ Sat(self, p + k) = At(query, k)
    THEN SingletonExtend(self, query, qlen, p, k + 1)
    ELSE k

\* for (p = SA[i]; k < l; k++) if (S[p + k] != query[k]) return;
RECURSIVE MatchExtend(_, _, _, _, _)
MatchExtend(self, query, p, k, l) ==
    IF k < l
    THEN IF Sat(self, p + k) # At(query, k)
         THEN [k |-> k, mismatch |-> TRUE]
         ELSE MatchExtend(self, query, p, k + 1, l)
    ELSE [k |-> k, mismatch |-> FALSE]

\* The do-while of get_match_from over the query.
RECURSIVE MatchLoop(_, _, _, _, _, _)
MatchLoop(self, query, qlen, k, ij, res) ==
    LET ij2 == get_interval(self, ij, At(query, k))
    IN  IF IsEmpty(ij2) THEN [res EXCEPT !.l = k]
        ELSE LET res2 == [res EXCEPT !.i = ij2.i, !.j = ij2.j]
                 l == IF ij2.i < ij2.j /\ ij2.l < qlen THEN ij2.l ELSE qlen
                 e == MatchExtend(self, query, SAat(self, ij2.i), k + 1, l)
             IN  IF e.mismatch THEN [res2 EXCEPT !.l = e.k]
                 ELSE IF e.k < qlen
                      THEN MatchLoop(self, query, qlen, e.k, ij2, res2)
                      ELSE [res2 EXCEPT !.l = qlen]

\* get_match_from: the longest match of the query, starting from the
\* lcp-interval ij of query[0..k).  In the singleton branch k is a size_t
\* initialised from ij.l, so a negative ij.l ends the loop at once.
get_match_from(self, query, qlen, k, ij) ==
    IF IsEmpty(ij) THEN ij
    ELSE IF ij.i = ij.j
    THEN IF ij.l < 0 THEN ij
         ELSE [ij EXCEPT !.l = SingletonExtend(self, query, qlen,
                                               SAat(self, ij.i), ij.l)]
    ELSE MatchLoop(self, query, qlen, k, ij, ij)

\* The lcp-interval of the empty string, as get_match and esa_init_cache
\* build it.
RootInterval(self) ==
    LET m == CLDat(self, self.len - 1)
    IN  [i |-> 0, j |-> self.len - 1, m |-> m, l |-> LCPat(self, m)]

get_match(self, query, qlen) ==
    get_match_from(self, query, qlen, 0, RootInterval(self))

\* The index of a prefix of CACHE_LENGTH nucleotides in the cache.
RECURSIVE CacheCode(_, _)
CacheCode(str, n) ==
    IF n = 0 THEN 0 ELSE 4 * CacheCode(str, n - 1) + char2code(str[n])

get_match_cached(self, query, qlen) ==
    IF qlen <= CACHE_LENGTH THEN get_match(self, query, qlen)
    ELSE IF \E i \in 1..CACHE_LENGTH : char2code(query[i]) < 0
         THEN get_match(self, query, qlen)
    ELSE LET ij == self.cache[CacheCode(query, CACHE_LENGTH)]
         IN  IF IsEmpty(ij) THEN get_match(self, query, qlen)
             ELSE get_match_from(self, query, qlen, ij.l, ij)

(***************************************************************************)
(* esa.c: the cache of lcp-intervals of all prefixes of CACHE_LENGTH.      *)
(***************************************************************************)
\* The cache is built as the sequence of the writes the depth-first search
\* makes, in program order; an entry holds what was written to it last.
\* esa_init_cache_fill writes the interval in to every entry whose prefix
\* begins with str[0..pos): one element of the sequence.
esa_init_cache_fill(str, pos, in) ==
    <<[str |-> SubSeq(str, 1, IF pos < CACHE_LENGTH THEN pos ELSE CACHE_LENGTH),
       in |-> in]>>

\* The "fast forward" loop of esa_init_cache_dfs: copy the characters of the
\* interval's label into str until ij.l or until a character that is not a
\* nucleotide.
RECURSIVE FastForward(_, _, _, _)
FastForward(self, str, k, ij) ==
    IF k < ij.l
    THEN LET c == Sat(self, SAat(self, ij.i) + k)
         IN  IF char2code(c) < 0
             THEN [str |-> str, k |-> k, non_acgt |-> TRUE]
             ELSE FastForward(self, Append(str, c), k + 1, ij)
    ELSE [str |-> str, k |-> k, non_acgt |-> FALSE]

\* esa_init_cache_dfs; DfsCode is the body of its loop over the nucleotides.
RECURSIVE esa_init_cache_dfs(_, _, _, _)
RECURSIVE DfsCode(_, _, _, _, _)
DfsCode(self, str, pos, in, code) ==
    LET str1 == Append(str, code2char(code))
        ij == get_interval(self, in, code2char(code))
    IN  IF IsEmpty(ij) THEN esa_init_cache_fill(str1, pos + 1, ij)
        ELSE IF ij.l <= pos + 1
             THEN esa_init_cache_dfs(self, str1, pos + 1, ij)
        ELSE IF ij.l >= CACHE_LENGTH
             THEN esa_init_cache_fill(str1, pos + 1, in)
        ELSE LET ff == FastForward(self, str1, pos + 1, ij)
             IN  esa_init_cache_fill(str1, pos + 1, in)
                 \o (IF ff.non_acgt
                     THEN esa_init_cache_fill(ff.str, ff.k, ij)
                     ELSE esa_init_cache_dfs(self, ff.str, ff.k, ij))

esa_init_cache_dfs(self, str, pos, in) ==
    IF pos < CACHE_LENGTH /\ IsEmpty(in)
    THEN esa_init_cache_fill(str, pos, in)
    ELSE IF pos >= CACHE_LENGTH
    THEN esa_init_cache_fill(str, pos, in)
    ELSE DfsCode(self, str, pos, in, 0) \o DfsCode(self, str, pos, in, 1)
         \o DfsCode(self, str, pos, in, 2) \o DfsCode(self, str, pos, in, 3)

\* The nucleotides of the prefix a cache index stands for.
CacheStr(code) ==
    [k \in 1..CACHE_LENGTH |-> code2char(code \div Pow4(CACHE_LENGTH - k))]

IsPrefix(p, str) == Len(p) <= Len(str) /\ SubSeq(str, 1, Len(p)) = p

\* The last of the first n writes that covers the prefix str; 0 if none.
RECURSIVE LastWrite(_, _, _)
LastWrite(writes, str, n) ==
    IF n = 0 THEN 0
    ELSE IF IsPrefix(writes[n].str, str) THEN n
    ELSE LastWrite(writes, str, n - 1)

\* What a cell of the table holds after the writes: a cell no write reached
\* keeps what malloc left there.
CacheCell(self, writes, n) ==
    IF n = 0
    THEN [i |-> self.w, j |-> self.w, m |-> self.w, l |-> self.w]
    ELSE writes[n].in

CacheTable(self, writes) ==
    [code \in 0..(Pow4(CACHE_LENGTH) - 1) |->
       CacheCell(self, writes, LastWrite(writes, CacheStr(code), Len(writes)))]

\* esa_init_cache: the table comes from malloc; the search starts at the
\* root interval with the empty prefix.
esa_init_cache(self) ==
    CacheTable(self, esa_init_cache_dfs(self, <<>>, 0, RootInterval(self)))

\* esa_init: SA, LCP, CLD, FVC and the cache of the text S (the subject's
\* RS), in this order.
esa_init(S, w) ==
    LET sa == esa_init_SA(S)
        lcp == esa_init_LCP(S, sa)
        cld == esa_init_CLD(lcp, Len(S), w)
        fvc == esa_init_FVC(S, sa, lcp)
        self == [S |-> S, len |-> Len(S), SA |-> sa, LCP |-> lcp, CLD |-> cld,
                 FVC |-> fvc, cache |-> <<>>, w |-> w]
    IN  [self EXCEPT !.cache = esa_init_cache(self)]

(***************************************************************************)
(* The match-engine specification: build the ESA of a subject, then match  *)
(* queries against it with both entry points.                              *)
(***************************************************************************)
\* The bytes a normalised sequence can hold (nucleotides and the '!' that
\* joins records); the model draws subjects and queries from subsets.
Nucleotides == {ChA, ChC, ChG, ChT}
SubjectAlphabet == {ChA, ChC, ChBang}
QueryAlphabet == {ChA, ChC, ChBang}
WildValues == {-1, 2}

NoInterval == [i |-> -2, j |-> -2, m |-> -2, l |-> -2]
NoDist == [ret |-> [seq_len |-> 0, counts |-> <<>>], accepted |-> <<>>,
           tallied |-> <<>>]
NoESA == [S |-> <<>>, len |-> 0, SA |-> <<>>, LCP |-> <<>>, CLD |-> <<>>,
          FVC |-> <<>>, cache |-> <<>>, w |-> 0]

\* The parts of the state a specification does not use stay as they are here.
EsaIdle == wild = -1 /\ subject = <<>> /\ esa = NoESA
MatchIdle == qry = <<>> /\ resCached = NoInterval /\ resPlain = NoInterval
AnchorIdle == minLength = 0 /\ MODEL = M_JC /\ dist = NoDist
ThresholdIdle == cumProb = <<>> /\ oneMinusP = 0 /\ anchorLen = 0
DriverIdle ==
    /\ lowMemory = FALSE
    /\ THREADS = 1
    /\ distOf = <<>>
    /\ table0 = <<>>
    /\ table = <<>>
    /\ iter = <<>>
    /\ accesses = {}
BootIdle ==
    /\ optarg = 0
    /\ BOOTSTRAP = 0
    /\ extraVerbose = FALSE
    /\ counted = <<>>
    /\ printed = <<>>
NoSeq == [S |-> <<>>, len |-> 0, RS |-> <<>>, RSlen |-> 0]
RunIdle == FLAGS = {} /\ warned = {} /\ lens = <<>> /\ status = -1
SeqIdle == input = <<>> /\ seq = NoSeq /\ revs = <<>>
NoWalk == [a |-> 0, b |-> 0, k |-> 0, ij |-> NoInterval, ch |-> ChNul]
DescIdle == walk = NoWalk /\ node = NoInterval
\* The buffers of esa_s and RS, in the order esa_init allocates them.
AllocOrder == <<"SA", "LCP", "CLD", "FVC", "cache">>
\* The same buffers in the order esa_free frees them.
FreeOrder == <<"SA", "LCP", "CLD", "cache", "FVC">>
Buffers == {"RS"} \cup {AllocOrder[k] : k \in 1..Len(AllocOrder)}
\* No buffer allocated: esa_s E is uninitialised storage nobody reads, RS is NULL.
NoHeap == [b \in Buffers |-> "none"]
ResIdle == heap = NoHeap /\ leaked = {} /\ faults = {} /\ cur = 0 /\ at = 0
\* The locals of dist_anchor outside a call.
NoLoop ==
    [ret |-> [seq_len |-> 0, counts |-> <<>>],
     this_match |-> [pos_S |-> 0, pos_Q |-> 0, length |-> 0],
     last_match |-> [pos_S |-> 0, pos_Q |-> 0, length |-> 0],
     last_was_right_anchor |-> FALSE, accepted |-> <<>>, tallied |-> <<>>]
LoopIdle == loop = NoLoop /\ turns = 0

InitMatch ==
    /\ pc = "subject"
    /\ wild \in WildValues
    /\ subject \in Strings(SubjectAlphabet, 1, MaxSubject)
    /\ esa = NoESA
    /\ MatchIdle /\ AnchorIdle /\ ThresholdIdle /\ DriverIdle /\ BootIdle
    /\ RunIdle /\ SeqIdle /\ DescIdle /\ ResIdle /\ LoopIdle

\* seq_subject_init followed by esa_init.
EsaInit ==
    /\ pc = "subject"
    /\ esa' = esa_init(catcomp(subject, wild), wild)
    /\ pc' = "esa"
    /\ UNCHANGED <<resVars, loopVars, runVars, seqVars, descVars, wild, subject, matchVars, anchorVars, thresholdVars,
                   driverVars, bootVars>>

\* One query matched with get_match_cached and with get_match.
Match ==
    /\ pc = "esa"
    /\ \E q \in Strings(QueryAlphabet, 0, MaxQuery) :
          /\ qry' = q
          /\ resCached' = get_match_cached(esa, q, Len(q))
          /\ resPlain' = get_match(esa, q, Len(q))
    /\ pc' = "matched"
    /\ UNCHANGED <<resVars, loopVars, runVars, seqVars, descVars, esaVars, anchorVars, thresholdVars, driverVars, bootVars>>

\* The caller is done with the result and may match again.
MatchDone ==
    /\ pc = "matched"
    /\ pc' = "esa"
    /\ qry' = <<>>
    /\ resCached' = NoInterval
    /\ resPlain' = NoInterval
    /\ UNCHANGED <<resVars, loopVars, runVars, seqVars, descVars, esaVars, anchorVars, thresholdVars, driverVars, bootVars>>

NextMatch == EsaInit \/ Match \/ MatchDone

SpecMatch == InitMatch /\ [][NextMatch]_vars

\* C1: for every subject and query over the normalised alphabet,
\* get_match_cached and get_match return the same i, j and l.
CachedEqualsPlain ==
    pc = "matched" =>
        /\ resCached.i = resPlain.i
        /\ resCached.j = resPlain.j
        /\ resCached.l = resPlain.l
\* Whether q[0..l) stands in the text of the ESA at position p.
OccursAt(self, q, l, p) ==
    /\ p + l <= self.len
    /\ \A k \in 0..(l - 1) : At(self.S, p + k) = At(q, k)

\* The length of the longest prefix of q occurring anywhere in the text.
LongestPrefixLen(self, q) ==
    CHOOSE l \in 0..Len(q) :
        /\ \E p \in 0..(self.len - 1) : OccursAt(self, q, l, p)
        /\ \A l2 \in (l + 1)..Len(q) :
               ~ \E p \in 0..(self.len - 1) : OccursAt(self, q, l2, p)

\* What the longest-match operation promises of its result res for q.
IsLongestMatch(self, q, res) ==
    /\ res.i \in 0..(self.len - 1)
    /\ res.j \in res.i..(self.len - 1)
    /\ res.l = LongestPrefixLen(self, q)
    /\ OccursAt(self, q, res.l, self.SA[res.i])
    /\ res.l = Len(q) \/ At(q, res.l) # At(self.S, self.SA[res.i] + res.l)
    /\ \A x \in res.i..res.j : OccursAt(self, q, res.l, self.SA[x])

\* C2: both get_match and get_match_cached return the longest match of the
\* query: l is the length of the longest prefix of Q occurring in RS, the
\* prefix stands at SA[i], cannot be extended there, and every suffix in
\* SA[i..j] begins with it.
LongestMatchCorrect ==
    pc = "matched" =>
        /\ IsLongestMatch(esa, qry, resPlain)
        /\ IsLongestMatch(esa, qry, resCached)

\* The same promise for get_match alone.
PlainMatchCorrect == pc = "matched" => IsLongestMatch(esa, qry, resPlain)

(***************************************************************************)
(* model.c: tallying nucleotides into the mutation matrix.                 *)
(***************************************************************************)
\* The exclusive or of two small non-negative integers, bit by bit.
RECURSIVE BitXor(_, _)
BitXor(a, b) ==
    IF a = 0 /\ b = 0 THEN 0
    ELSE (IF a % 2 # b % 2 THEN 1 ELSE 0) + 2 * BitXor(a \div 2, b \div 2)

\* nucl2bit: c &= 6; c ^= c >> 1; return c >> 1.
nucl2bit(c) ==
    LET c6 == 2 * ((c \div 2) % 4)
    IN  BitXor(c6, c6 \div 2) \div 2

\* model_count_equal: tally the len bytes of str from index from as equal.
\* RAW, JC and KIMURA spread len over the diagonal; the other models count
\* the nucleotides themselves by the bits 0x6 of the byte.
model_count_equal(MM, mdl, str, from, len) ==
    IF mdl = M_RAW \/ mdl = M_JC \/ mdl = M_KIMURA
    THEN LET fourth == len \div 4
         IN  [MM EXCEPT !.counts[AtoA] = @ + fourth,
                        !.counts[CtoC] = @ + fourth,
                        !.counts[GtoG] = @ + fourth,
                        !.counts[TtoT] = @ + fourth + (len % 4)]
    ELSE LET local_counts(b) ==
                 Cardinality({k \in from..(from + len - 1) :
                                 /\ At(str, k) >= ChA
                                 /\ (At(str, k) \div 2) % 4 = b})
         IN  [MM EXCEPT !.counts[AtoA] = @ + local_counts(0),
                        !.counts[CtoC] = @ + local_counts(1),
                        !.counts[GtoG] = @ + local_counts(3),
                        !.counts[TtoT] = @ + local_counts(2)]

\* The cell model_count picks for the subject byte s and the query byte q:
\* base = (0xc840 >> (4 * foo)) & 0xf, index = base + (foo >= baz ? foo - baz : baz).
MutationIndex(s, q) ==
    LET foo == nucl2bit(s)
        baz == nucl2bit(q)
        base == (51264 \div Pow4(2 * foo)) % 16
    IN  base + (IF foo >= baz THEN foo - baz ELSE baz)

\* model_count: tally the len aligned pairs S[sfrom + k], Q[qfrom + k],
\* skipping a pair with a byte below 'A'.
model_count(MM, S, sfrom, Q, qfrom, len) ==
    LET pairs == {k \in 0..(len - 1) :
                     At(S, sfrom + k) >= ChA /\ At(Q, qfrom + k) >= ChA}
        local_counts(i) ==
            Cardinality({k \in pairs :
                            MutationIndex(At(S, sfrom + k), At(Q, qfrom + k)) = i})
    IN  [MM EXCEPT !.counts = [i \in 0..(MUTCOUNTS - 1) |-> @[i] + local_counts(i)]]

\* model_total: the sum of all counts.
RECURSIVE SumCounts(_, _)
SumCounts(counts, n) ==
    IF n = 0 THEN 0 ELSE counts[n - 1] + SumCounts(counts, n - 1)

model_total(MM) == SumCounts(MM.counts, MUTCOUNTS)

(***************************************************************************)
(* process.c: anchors and the anchor-based estimate of the divergence.     *)
(***************************************************************************)
\* lcp: the length of the longest common prefix of a[afrom..] and
\* b[bfrom..], at most remaining.
RECURSIVE lcp(_, _, _, _, _, _)
lcp(a, afrom, b, bfrom, remaining, length) ==
    IF length < remaining /\ At(a, afrom + length) = At(b, bfrom + length)
    THEN lcp(a, afrom, b, bfrom, remaining, length + 1)
    ELSE length

\* lucky_anchor: try to continue the last anchor on the same diagonal,
\* without the uniqueness test.  The positions are size_t: a negative gap
\* stands for the wrapped-around (huge) value.
lucky_anchor(ctx, last_match, this_match) ==
    LET advance == this_match.pos_Q - last_match.pos_Q
        gap == this_match.pos_Q - last_match.pos_Q - last_match.length
        try_pos_S == last_match.pos_S + advance
    IN  IF try_pos_S >= ctx.C.len \/ gap < 0 \/ gap > ctx.threshold
        THEN [ok |-> FALSE, this_match |-> this_match]
        ELSE LET length == lcp(ctx.query, this_match.pos_Q, ctx.C.S, try_pos_S,
                               ctx.query_length - this_match.pos_Q, 0)
             IN  [ok |-> length >= ctx.threshold,
                  this_match |-> [this_match EXCEPT !.pos_S = try_pos_S,
                                                    !.length = length]]

\* The end of anchor: the match inter becomes this_match.
AnchorOf(ctx, this_match, inter, length) ==
    [ok |-> inter.i = inter.j /\ length >= ctx.threshold,
     this_match |-> [this_match EXCEPT !.pos_S = SAat(ctx.C, inter.i),
                                       !.length = length]]

AnchorClamp(ctx, this_match, inter) ==
    AnchorOf(ctx, this_match, inter, IF inter.l <= 0 THEN 0 ELSE inter.l)

\* anchor: the longest match of the rest of the query, accepted if it is
\* unique in the subject and at least threshold long.
anchor(ctx, last_match, this_match) ==
    AnchorClamp(ctx, this_match,
                get_match_cached(ctx.C,
                                 SubSeq(ctx.query, this_match.pos_Q + 1,
                                        ctx.query_length),
                                 ctx.query_length - this_match.pos_Q))

\* What dist_anchor does with the matrix when it tallies the last anchor as
\* equal; tallied remembers the range of the query that was counted.
CountLast(ctx, st) ==
    [st EXCEPT !.ret = model_count_equal(st.ret, ctx.MODEL, ctx.query,
                                         st.last_match.pos_Q, st.last_match.length),
               !.tallied = Append(@, [from |-> st.last_match.pos_Q,
                                      len |-> st.last_match.length])]

CountBridgeKeepFlag(ctx, st, end_S, end_Q, len) ==
    [st EXCEPT !.ret = model_count(st.ret, ctx.C.S, end_S, ctx.query, end_Q, len),
               !.tallied = Append(@, [from |-> end_Q, len |-> len])]

\* "Count the SNPs in between": the len pairs from end_S and end_Q.
CountBridge(ctx, st, end_S, end_Q, len) ==
    [st EXCEPT !.ret = model_count(st.ret, ctx.C.S, end_S, ctx.query, end_Q, len),
               !.tallied = Append(@, [from |-> end_Q, len |-> len]),
               !.last_was_right_anchor = TRUE]

\* last_match = this_match; the accepted anchor is remembered.
Remember(st, this_match, lucky) ==
    [st EXCEPT !.last_match = this_match,
               !.accepted = Append(@, [pos_S |-> this_match.pos_S,
                                       pos_Q |-> this_match.pos_Q,
                                       length |-> this_match.length,
                                       lucky |-> lucky])]

\* The body of "we have reached a new anchor": st holds this_match updated
\* by lucky_anchor or anchor, and lucky says which of the two accepted it.
NewAnchor(ctx, st, lucky) ==
    LET this_match == st.this_match
        last_match == st.last_match
        end_S == last_match.pos_S + last_match.length
        end_Q == last_match.pos_Q + last_match.length
    IN  Remember(
            IF /\ this_match.pos_S > end_S
               /\ this_match.pos_Q - end_Q = this_match.pos_S - end_S
            THEN CountBridge(ctx, CountLast(ctx, st), end_S, end_Q,
                             this_match.pos_Q - end_Q)
            ELSE IF st.last_was_right_anchor
                    \/ last_match.length >= ctx.threshold * 2
            THEN [CountLast(ctx, st) EXCEPT !.last_was_right_anchor = FALSE]
            ELSE [st EXCEPT !.last_was_right_anchor = FALSE],
            this_match, lucky)

\* An advance by the length of the match alone.
AdvanceByLength(st) ==
    [st EXCEPT !.this_match.pos_Q = @ + st.this_match.length]

\* this_match.pos_Q += this_match.length + 1.
Advance(st) ==
    [st EXCEPT !.this_match.pos_Q = @ + st.this_match.length + 1]

\* The if of the loop once lucky_anchor or anchor has answered with an.
AnchorFound(ctx, st, an, lucky) ==
    IF an.ok
    THEN Advance(NewAnchor(ctx, [st EXCEPT !.this_match = an.this_match], lucky))
    ELSE Advance([st EXCEPT !.this_match = an.this_match])

\* lucky_anchor(...) || anchor(...): anchor runs only if lucky_anchor fails,
\* on the this_match lucky_anchor left behind.
AnchorTry(ctx, st, lk) ==
    IF lk.ok THEN AnchorFound(ctx, st, lk, TRUE)
    ELSE AnchorFound(ctx, st, anchor(ctx, st.last_match, lk.this_match), FALSE)

\* The while loop of dist_anchor over the query.
RECURSIVE AnchorLoop(_, _)
AnchorLoop(ctx, st) ==
    IF st.this_match.pos_Q < ctx.query_length
    THEN AnchorLoop(ctx, AnchorTry(ctx, st,
                                   lucky_anchor(ctx, st.last_match, st.this_match)))
    ELSE st

\* A dist_anchor whose identical-sequence case does not return: the last
\* anchor is tallied once more after the whole query.
AnchorFinishNoReturn(ctx, st) ==
    LET whole == IF st.last_match.length >= ctx.query_length
                 THEN [st EXCEPT !.ret = model_count_equal(st.ret, ctx.MODEL,
                                                           ctx.query, 0,
                                                           ctx.query_length),
                                 !.tallied = Append(@, [from |-> 0,
                                                        len |-> ctx.query_length])]
                 ELSE st
    IN  IF st.last_was_right_anchor
           \/ st.last_match.length >= ctx.threshold * 2
        THEN CountLast(ctx, whole)
        ELSE whole

\* The end of dist_anchor: the identical-sequence case returns at once;
\* otherwise the last anchor is tallied if it was a right anchor or is as
\* long as an anchor pair.
AnchorFinish(ctx, st) ==
    IF st.last_match.length >= ctx.query_length
    THEN [st EXCEPT !.ret = model_count_equal(st.ret, ctx.MODEL, ctx.query, 0,
                                              ctx.query_length),
                    !.tallied = Append(@, [from |-> 0, len |-> ctx.query_length])]
    ELSE IF st.last_was_right_anchor
            \/ st.last_match.length >= ctx.threshold * 2
    THEN CountLast(ctx, st)
    ELSE st

\* What dist_anchor hands back.
Returned(st) == [ret |-> st.ret, accepted |-> st.accepted, tallied |-> st.tallied]

\* dist_anchor.  The threshold is what min_anchor_length returns for the
\* subject; the result carries the matrix and, for the properties, the
\* anchors accepted and the query ranges tallied.
dist_anchor(self, query, query_length, threshold, mdl) ==
    LET ctx == [C |-> self, query |-> query, query_length |-> query_length,
                threshold |-> threshold, MODEL |-> mdl]
        zero == [pos_S |-> 0, pos_Q |-> 0, length |-> 0]
        st0 == [ret |-> [seq_len |-> query_length,
                         counts |-> [i \in 0..(MUTCOUNTS - 1) |-> 0]],
                this_match |-> zero, last_match |-> zero,
                last_was_right_anchor |-> FALSE,
                accepted |-> <<>>, tallied |-> <<>>]
    IN  Returned(AnchorFinish(ctx, AnchorLoop(ctx, st0)))

(***************************************************************************)
(* The anchor specification: dist_anchor of a query against the ESA of a   *)
(* subject, for the thresholds min_anchor_length can return and the two    *)
(* ways model_count_equal tallies.                                         *)
(***************************************************************************)
AnchorAlphabet == {ChA, ChT, ChBang}

\* The query with one byte replaced.
Substitutions(str) ==
    {[str EXCEPT ![k] = c] : k \in 1..Len(str), c \in AnchorAlphabet}

\* The beginnings and the ends of a string.
Pieces(str) ==
    {SubSeq(str, 1, k) : k \in 1..Len(str)}
        \cup {SubSeq(str, k, Len(str)) : k \in 1..Len(str)}

\* The queries compared with a subject: the subject itself, the subject
\* with one substitution, and its beginnings and ends.
AnchorQueries(str) ==
    {str} \cup Substitutions(str) \cup Pieces(str)

\* The thresholds dist_anchor gets from min_anchor_length for subjects this
\* short: process.c's version returns at least 2 for 0 < p < 1.
Thresholds == {2, 3}

InitAnchor ==
    /\ pc = "subject"
    /\ wild \in WildValues
    /\ subject \in Strings(AnchorAlphabet, 1, MaxAnchorSubject)
    /\ esa = NoESA
    /\ MatchIdle /\ AnchorIdle /\ ThresholdIdle /\ DriverIdle /\ BootIdle
    /\ RunIdle /\ SeqIdle /\ DescIdle /\ ResIdle /\ LoopIdle

\* One call of dist_anchor.
DistAnchor ==
    /\ pc = "esa"
    /\ \E q \in AnchorQueries(subject), t \in Thresholds, mdl \in {M_JC, M_LOGDET} :
          /\ qry' = q
          /\ minLength' = t
          /\ MODEL' = mdl
          /\ dist' = dist_anchor(esa, q, Len(q), t, mdl)
    /\ pc' = "dist"
    /\ UNCHANGED <<resVars, loopVars, runVars, seqVars, descVars, esaVars, resCached, resPlain, thresholdVars, driverVars,
                   bootVars>>

\* The caller took the matrix; the ESA serves the next query.
DistDone ==
    /\ pc = "dist"
    /\ pc' = "esa"
    /\ qry' = <<>>
    /\ minLength' = 0
    /\ MODEL' = M_JC
    /\ dist' = NoDist
    /\ UNCHANGED <<resVars, loopVars, runVars, seqVars, descVars, esaVars, resCached, resPlain, thresholdVars, driverVars,
                   bootVars>>

NextAnchor == EsaInit \/ DistAnchor \/ DistDone

SpecAnchor == InitAnchor /\ [][NextAnchor]_vars

\* Whether a byte is one of the four nucleotides.
IsNucleotide(c) == c \in Nucleotides

\* C3: no anchor accepted by dist_anchor, lucky or not, contains '!', '#'
\* or ';': all its bytes in RS and in the query are nucleotides.
AnchorsAreNucleotides ==
    pc = "dist" =>
        \A n \in 1..Len(dist.accepted) :
            LET a == dist.accepted[n]
            IN  \A k \in 0..(a.length - 1) :
                    /\ IsNucleotide(At(esa.S, a.pos_S + k))
                    /\ IsNucleotide(At(qry, a.pos_Q + k))

\* The query positions a tallied range covers.
RangeOf(r) == r.from..(r.from + r.len - 1)

\* C4: the matrix dist_anchor returns has seq_len = |Q| and counts that sum
\* to at most |Q|; the tallied ranges lie in the query and no two of them
\* overlap, so every query position is tallied at most once.
TalliedAtMostOnce ==
    pc = "dist" =>
        /\ dist.ret.seq_len = Len(qry)
        /\ model_total(dist.ret) <= Len(qry)
        /\ \A n \in 1..Len(dist.tallied) :
               /\ RangeOf(dist.tallied[n]) \subseteq 0..(Len(qry) - 1)
               /\ \A n2 \in (n + 1)..Len(dist.tallied) :
                      RangeOf(dist.tallied[n]) \cap RangeOf(dist.tallied[n2]) = {}

\* A call that accepted a lucky anchor after a bridge of mismatches and
\* tallied the first anchor, the bridge and the last anchor.
TalliedBridgeReached ==
    /\ pc = "dist"
    /\ Len(dist.tallied) >= 3
    /\ \E n \in 1..Len(dist.accepted) : dist.accepted[n].lucky
    /\ \E n \in 1..Len(dist.tallied) :
           /\ dist.tallied[n].len > 0
           /\ dist.tallied[n].from > 0
           /\ dist.tallied[n].from + dist.tallied[n].len < Len(qry)
    /\ \E i \in 0..(MUTCOUNTS - 1) :
           i \notin {AtoA, CtoC, GtoG, TtoT} /\ dist.ret.counts[i] > 0

\* C8: a query identical to the subject's forward strand and at least as
\* long as the threshold is tallied as equal as a whole: the counts sum to
\* |Q| and every off-diagonal cell is zero.
IdenticalIsAllEqual ==
    (pc = "dist" /\ qry = subject /\ Len(qry) >= minLength
        /\ \A k \in 1..Len(qry) : IsNucleotide(qry[k])) =>
        /\ model_total(dist.ret) = Len(qry)
        /\ \A i \in 0..(MUTCOUNTS - 1) :
               i \notin {AtoA, CtoC, GtoG, TtoT} => dist.ret.counts[i] = 0

(***************************************************************************)
(* The threshold specification: min_anchor_length, as sequence.c defines   *)
(* it for seq_subject_init and as process.c defines it for dist_anchor.    *)
(* Both walk the same cumulative probability (shustring_cum_prob and       *)
(* shuprop have the same body), given here as a table.                     *)
(***************************************************************************)
\* shustring_cum_prob(x, g / 2, l) and shuprop(x, g / 2, l) for the g and l
\* of the table; past the table the sum has reached 1.0.
shustring_cum_prob(tab, x) == IF x \in DOMAIN tab THEN tab[x] ELSE ProbScale

\* The tables a subject can have: P{X <= 0} = 0 for a subject that is not
\* empty, the probability does not decrease with x and reaches 1.0.
CumProbs ==
    {tab \in [0..MaxX -> 0..ProbScale] :
        /\ tab[0] = 0
        /\ tab[MaxX] = ProbScale
        /\ \A x \in 1..MaxX : tab[x - 1] <= tab[x]}

\* sequence.c: while (shustring_cum_prob(x, g / 2, l) < 1 - p) x++.
RECURSIVE SequenceLoop(_, _, _)
SequenceLoop(tab, level, x) ==
    IF shustring_cum_prob(tab, x) < level
    THEN SequenceLoop(tab, level, x + 1)
    ELSE x

min_anchor_length_sequence_c(tab, level) == SequenceLoop(tab, level, 1)

\* process.c: for (; prop < 1 - p; x++) prop = shuprop(x, g / 2, l).
RECURSIVE ProcessLoop(_, _, _, _)
ProcessLoop(tab, level, x, prop) ==
    IF prop < level
    THEN ProcessLoop(tab, level, x + 1, shustring_cum_prob(tab, x))
    ELSE x

min_anchor_length_process_c(tab, level) == ProcessLoop(tab, level, 1, 0)

\* The option -p takes 0 < p < 1, so 0 < 1 - p < 1.
InitThreshold ==
    /\ pc = "given"
    /\ cumProb \in CumProbs
    /\ oneMinusP \in 1..(ProbScale - 1)
    /\ anchorLen = 0
    /\ EsaIdle /\ MatchIdle /\ AnchorIdle /\ DriverIdle /\ BootIdle
    /\ RunIdle /\ SeqIdle /\ DescIdle /\ ResIdle /\ LoopIdle

\* seq_subject_init: S->threshold = min_anchor_length(ANCHOR_P_VALUE, ...).
SubjectThreshold ==
    /\ pc = "given"
    /\ anchorLen' = min_anchor_length_sequence_c(cumProb, oneMinusP)
    /\ pc' = "sequence"
    /\ UNCHANGED <<resVars, loopVars, runVars, seqVars, descVars, esaVars, matchVars, anchorVars, cumProb, oneMinusP,
                   driverVars, bootVars>>

\* dist_anchor: threshold = min_anchor_length(RANDOM_ANCHOR_PROP, ...).
DistThreshold ==
    /\ pc = "given"
    /\ anchorLen' = min_anchor_length_process_c(cumProb, oneMinusP)
    /\ pc' = "process"
    /\ UNCHANGED <<resVars, loopVars, runVars, seqVars, descVars, esaVars, matchVars, anchorVars, cumProb, oneMinusP,
                   driverVars, bootVars>>

\* The threshold was used; the next call may follow.
ThresholdDone ==
    /\ pc \in {"sequence", "process"}
    /\ anchorLen' = 0
    /\ pc' = "given"
    /\ UNCHANGED <<resVars, loopVars, runVars, seqVars, descVars, esaVars, matchVars, anchorVars, cumProb, oneMinusP,
                   driverVars, bootVars>>

NextThreshold == SubjectThreshold \/ DistThreshold \/ ThresholdDone

SpecThreshold == InitThreshold /\ [][NextThreshold]_vars

\* Whether x is the smallest length >= 1 whose cumulative probability
\* reaches 1 - p.
IsSmallest(tab, level, x) ==
    /\ x >= 1
    /\ shustring_cum_prob(tab, x) >= level
    /\ shustring_cum_prob(tab, x - 1) < level

\* C7: min_anchor_length returns the smallest x >= 1 whose cumulative
\* probability reaches 1 - p: cum_prob(threshold) >= 1 - p and
\* cum_prob(threshold - 1) < 1 - p, whichever definition is called.
ThresholdIsSmallest ==
    pc \in {"sequence", "process"} => IsSmallest(cumProb, oneMinusP, anchorLen)

\* The definition in sequence.c does return the smallest such x.
SubjectThresholdIsSmallest ==
    pc = "sequence" => IsSmallest(cumProb, oneMinusP, anchorLen)

\* The definition in process.c returns one more than that.
DistThresholdIsOneMore ==
    pc = "process" => IsSmallest(cumProb, oneMinusP, anchorLen - 1)

(***************************************************************************)
(* dist_hack.h: the drivers distMatrix (the loop over the subjects runs in *)
(* parallel) and distMatrixLM (the loop over the queries runs in           *)
(* parallel).  A distance is a number: 0 for equal sequences, NAN, or a    *)
(* positive value; dist_anchor and the Jukes-Cantor correction of a pair   *)
(* are the given distOf.                                                   *)
(***************************************************************************)
Seqs == 0..(NSeq - 1)
Cells == Seqs \X Seqs
OffDiagonal == {cell \in Cells : cell[1] # cell[2]}

\* The distances of the model: zero and one positive value.
Distances == {0, CUTOFF_INVERSE}
\* What a cell of D holds that was never written, and NAN.
Unwritten == -1
NAN == -2
\* The coverage dist_anchor returns for a pair, as one value.
Covered == 1

\* A warning on stderr.
Warning(kind, i, j) == [kind |-> kind, i |-> i, j |-> j]

\* x < CUTOFF * y.
CutoffLess(x, y) == x * CUTOFF_INVERSE < y

\* An access of the worker for subject i (and query j in a parallel inner
\* loop, -1 otherwise) to the cell of the tables.
Access(op, i, j, cell) == [op |-> op, i |-> i, j |-> j, cell |-> cell]

\* The body of the loop over j: the diagonal, "if already estimated", or
\* dist_anchor and the two stores.
CompareBody(tbl, d, i, j) ==
    IF j = i
    THEN [tbl EXCEPT !.D[<<i, j>>] = 0, !.C[<<i, j>>] = 0]
    ELSE IF tbl.M[<<i, j>>] # 0
    THEN tbl
    ELSE [tbl EXCEPT !.D[<<i, j>>] = d[<<i, j>>], !.M[<<i, j>>] = d[<<i, j>>],
                     !.C[<<i, j>>] = Covered]

CompareAccesses(tbl, i, j, task) ==
    IF j = i
    THEN {Access("w", i, task, <<i, j>>)}
    ELSE IF tbl.M[<<i, j>>] # 0
    THEN {Access("r", i, task, <<i, j>>)}
    ELSE {Access("r", i, task, <<i, j>>), Access("w", i, task, <<i, j>>)}

\* esa_init failed: the row of D is 0.0 on the diagonal and NAN elsewhere,
\* and the coverages of the row are 0.0.
FailBody(tbl, i) ==
    [tbl EXCEPT !.D = [cell \in Cells |->
                          IF cell[1] # i THEN @[cell]
                          ELSE IF cell[2] = i THEN 0 ELSE NAN],
                !.C = [cell \in Cells |-> IF cell[1] # i THEN @[cell] ELSE 0]]

FailAccesses(i) == {Access("w", i, -1, <<i, j>>) : j \in Seqs}

\* dist_min and dist_max over row i of M.
Row(tbl, i) == {tbl.M[<<i, j>>] : j \in Seqs \ {i}}
SetMin(S) == CHOOSE x \in S : \A y \in S : x <= y
SetMax(S) == CHOOSE x \in S : \A y \in S : y <= x
dist_min(tbl, i) == SetMin(Row(tbl, i) \cup {DIST_MIN_START})
dist_max(tbl, i) == SetMax(Row(tbl, i) \cup {0})

\* if (dist_min < CUTOFF * dist_max).
Estimates(tbl, i) == CutoffLess(dist_min(tbl, i), dist_max(tbl, i))

RowAccesses(i) == {Access("r", i, -1, <<i, j>>) : j \in Seqs \ {i}}

\* The pairs (b, c) the loops over b and c visit for subject i, in order.
RECURSIVE PairsFrom(_, _)
PairsFrom(i, code) ==
    IF code = NSeq * NSeq THEN <<>>
    ELSE LET b == code \div NSeq
             c == code % NSeq
         IN  (IF b # i /\ c # b /\ c # i THEN <<(<<b, c>>)>> ELSE <<>>)
                 \o PairsFrom(i, code + 1)

EstPairs(i) == PairsFrom(i, 0)

\* The first approximation: M(b,c) = M(c,b) = M(i,c).
ApproxFirst(tbl, i, b, c) ==
    IF CutoffLess(tbl.M[<<i, b>>], tbl.M[<<i, c>>])
    THEN [tbl EXCEPT !.M[<<b, c>>] = tbl.M[<<i, c>>],
                     !.M[<<c, b>>] = tbl.M[<<i, c>>]]
    ELSE tbl

\* The second approximation: M(b,c) = M(c,b) = M(i,b).
ApproxSecond(tbl, i, b, c) ==
    IF CutoffLess(tbl.M[<<i, c>>], tbl.M[<<i, b>>])
    THEN [tbl EXCEPT !.M[<<b, c>>] = tbl.M[<<i, b>>],
                     !.M[<<c, b>>] = tbl.M[<<i, b>>]]
    ELSE tbl

\* The body of the loop over c for one pair (b, c).
EstimateBody(tbl, i, b, c) ==
    IF tbl.M[<<b, c>>] # 0 THEN tbl
    ELSE ApproxSecond(ApproxFirst(tbl, i, b, c), i, b, c)

EstimateAccesses(tbl, i, b, c) ==
    {Access("r", i, -1, <<b, c>>)}
        \cup (IF tbl.M[<<b, c>>] # 0 THEN {}
              ELSE {Access("r", i, -1, <<i, b>>), Access("r", i, -1, <<i, c>>)}
                   \cup (IF CutoffLess(tbl.M[<<i, b>>], tbl.M[<<i, c>>])
                            \/ CutoffLess(tbl.M[<<i, c>>], tbl.M[<<i, b>>])
                         THEN {Access("w", i, -1, <<b, c>>),
                               Access("w", i, -1, <<c, b>>)}
                         ELSE {}))


\* One thread runs the drivers' loops in program order.
RECURSIVE SerialCompare(_, _, _, _)
SerialCompare(tbl, d, i, j) ==
    IF j = NSeq THEN tbl
    ELSE SerialCompare(CompareBody(tbl, d, i, j), d, i, j + 1)

RECURSIVE SerialEstimate(_, _, _)
SerialEstimate(tbl, i, k) ==
    IF k > Len(EstPairs(i)) THEN tbl
    ELSE SerialEstimate(EstimateBody(tbl, i, EstPairs(i)[k][1], EstPairs(i)[k][2]),
                        i, k + 1)

SerialRest(tbl, i) ==
    IF Estimates(tbl, i) THEN SerialEstimate(tbl, i, 1) ELSE tbl

RECURSIVE SerialSubjects(_, _, _)
SerialSubjects(tbl, d, i) ==
    IF i = NSeq THEN tbl
    ELSE SerialSubjects(SerialRest(SerialCompare(tbl, d, i, 0), i), d, i + 1)

(***************************************************************************)
(* The driver specification: the iterations of the parallel loop are       *)
(* shared out to THREADS threads in equal chunks, each thread running its  *)
(* chunk in order; the threads interleave at the loop bodies.              *)
(***************************************************************************)
ChunkSize == (NSeq + THREADS - 1) \div THREADS
Owner(idx) == idx \div ChunkSize

\* The distances of the pairs: zero on the diagonal, the same both ways.
DistanceTables ==
    {d \in [Cells -> Distances] :
        \A cell \in Cells : /\ cell[1] = cell[2] => d[cell] = 0
                            /\ d[cell] = d[<<cell[2], cell[1]>>]}

\* The tables as malloc returns them: any M(i,j).distance, zero or not.
FreshTables ==
    {[M |-> m, D |-> [cell \in Cells |-> Unwritten],
      C |-> [cell \in Cells |-> Unwritten]] :
        m \in {t \in [Cells -> Distances] : \A i \in Seqs : t[<<i, i>>] = 0}}

InitDriver ==
    /\ pc = "running"
    /\ lowMemory \in BOOLEAN
    /\ THREADS \in 1..NSeq
    /\ distOf \in DistanceTables
    /\ table0 \in FreshTables
    /\ table = table0
    /\ iter = [i \in Seqs |-> [phase |-> "wait", todo |-> {}, k |-> 0]]
    /\ accesses = {}
    /\ EsaIdle /\ MatchIdle /\ AnchorIdle /\ ThresholdIdle /\ BootIdle
    /\ RunIdle /\ SeqIdle /\ DescIdle /\ ResIdle /\ LoopIdle

\* Whether iteration i of the loop over the subjects may begin.
MayBegin(i) ==
    /\ pc = "running"
    /\ iter[i].phase = "wait"
    /\ \A i2 \in 0..(i - 1) :
           (lowMemory \/ Owner(i2) = Owner(i)) => iter[i2].phase = "done"

\* Whether the body for query j of subject i is the next of its thread.
MayCompare(i, j) ==
    /\ j \in iter[i].todo
    /\ \A j2 \in iter[i].todo :
           j2 < j => (lowMemory /\ Owner(j2) # Owner(j))

\* seq_subject_init and esa_init succeed.
Begin(i) ==
    /\ MayBegin(i)
    /\ iter' = [iter EXCEPT ![i] = [phase |-> "cmp", todo |-> Seqs, k |-> 0]]
    /\ UNCHANGED <<resVars, loopVars, runVars, seqVars, descVars, pc, esaVars, matchVars, anchorVars, thresholdVars, lowMemory,
                   THREADS, distOf, table0, table, accesses, bootVars>>

\* esa_init fails: the row is filled in and the iteration is over.
BeginFails(i) ==
    /\ MayBegin(i)
    /\ warned' = warned \cup {Warning("index", i, -1)}
    /\ table' = FailBody(table, i)
    /\ accesses' = accesses \cup FailAccesses(i)
    /\ iter' = [iter EXCEPT ![i].phase = "done"]
    /\ UNCHANGED <<resVars, loopVars, FLAGS, lens, status, seqVars, descVars, pc, esaVars, matchVars,
                   anchorVars, thresholdVars, lowMemory, THREADS, distOf, table0,
                   bootVars>>

\* One body of the loop over the queries.
Compare(i, j) ==
    /\ pc = "running"
    /\ iter[i].phase = "cmp"
    /\ MayCompare(i, j)
    /\ table' = CompareBody(table, distOf, i, j)
    /\ accesses' = accesses \cup
                     CompareAccesses(table, i, j, IF lowMemory THEN j ELSE -1)
    /\ iter' = [iter EXCEPT ![i].todo = @ \ {j}]
    /\ UNCHANGED <<resVars, loopVars, runVars, seqVars, descVars, pc, esaVars, matchVars, anchorVars, thresholdVars, lowMemory,
                   THREADS, distOf, table0, bootVars>>

\* The loop over the queries is over: dist_min, dist_max and the cutoff.
MinMax(i) ==
    /\ pc = "running"
    /\ iter[i].phase = "cmp"
    /\ iter[i].todo = {}
    /\ accesses' = accesses \cup RowAccesses(i)
    /\ iter' = [iter EXCEPT ![i] =
                  IF Estimates(table, i) /\ EstPairs(i) # <<>>
                  THEN [phase |-> "est", todo |-> {}, k |-> 1]
                  ELSE [phase |-> "done", todo |-> {}, k |-> 0]]
    /\ UNCHANGED <<resVars, loopVars, runVars, seqVars, descVars, pc, esaVars, matchVars, anchorVars, thresholdVars, lowMemory,
                   THREADS, distOf, table0, table, bootVars>>

\* One body of the loop over c in "estimate distances".
Estimate(i) ==
    /\ pc = "running"
    /\ iter[i].phase = "est"
    /\ LET b == EstPairs(i)[iter[i].k][1]
           c == EstPairs(i)[iter[i].k][2]
       IN  /\ table' = EstimateBody(table, i, b, c)
           /\ accesses' = accesses \cup EstimateAccesses(table, i, b, c)
    /\ iter' = [iter EXCEPT ![i] =
                  IF iter[i].k < Len(EstPairs(i))
                  THEN [@ EXCEPT !.k = @ + 1]
                  ELSE [phase |-> "done", todo |-> {}, k |-> 0]]
    /\ UNCHANGED <<resVars, loopVars, runVars, seqVars, descVars, pc, esaVars, matchVars, anchorVars, thresholdVars, lowMemory,
                   THREADS, distOf, table0, bootVars>>

\* return D.
Return ==
    /\ pc = "running"
    /\ \A i \in Seqs : iter[i].phase = "done"
    /\ pc' = "returned"
    /\ UNCHANGED <<resVars, loopVars, runVars, seqVars, descVars, esaVars, matchVars, anchorVars, thresholdVars, driverVars,
                   bootVars>>

NextDriver ==
    \/ \E i \in Seqs : Begin(i) \/ BeginFails(i) \/ MinMax(i) \/ Estimate(i)
    \/ \E i \in Seqs, j \in Seqs : Compare(i, j)
    \/ Return

SpecDriver == InitDriver /\ [][NextDriver]_vars

\* Whether two accesses come from different workers: different subjects,
\* or different queries of one subject in a parallel inner loop.
OtherWorker(a, b) ==
    a.i # b.i \/ (a.j # -1 /\ b.j # -1 /\ a.j # b.j)

\* C5: the worker for subject i (for the pair (i,j) in the inner-parallel
\* driver) writes only cell (i,j); no cell is written by two workers and no
\* worker reads a cell another worker writes.
WritesDisjoint ==
    /\ \A a \in accesses :
           a.op = "w" => /\ a.cell[1] = a.i
                         /\ a.j # -1 => a.cell[2] = a.j
    /\ \A a, b \in accesses :
           (a.op = "w" /\ a.cell = b.cell) => ~OtherWorker(a, b)

\* Every esa_init of the run succeeded: no row of D was given up.
AllIndexed == \A cell \in Cells : table.D[cell] # NAN

\* C6: whatever the driver, the number of threads and the interleaving, the
\* tables returned are those one thread produces in program order, so the
\* two drivers return the same tables.
DriversAgree ==
    (pc = "returned" /\ AllIndexed) => table = SerialSubjects(table0, distOf, 0)

\* The inner-parallel driver does return what one thread produces.
LowMemoryIsSerial ==
    (pc = "returned" /\ AllIndexed /\ lowMemory) =>
        table = SerialSubjects(table0, distOf, 0)

(***************************************************************************)
(* model.c and io.c: averaging, the estimators, the bootstrap and the      *)
(* printed distance matrix.  A printed distance is nan, inf, or a number;  *)
(* a number is kept as the fraction SNPs / nucl in lowest terms, under the *)
(* Jukes-Cantor correction marked as corrected (the correction grows with  *)
(* the fraction, and fractions with denominators this small differ in the  *)
(* four decimals printed).                                                 *)
(***************************************************************************)
MutationCells == 0..(MUTCOUNTS - 1)
SNPCells == MutationCells \ {AtoA, CtoC, GtoG, TtoT}

\* model_average: the sum of two mutation matrices.
model_average(MM, NN) ==
    [counts |-> [i \in MutationCells |-> MM.counts[i] + NN.counts[i]],
     seq_len |-> MM.seq_len + NN.seq_len]

\* model_sum: the sum of the counts of some mutation types.
RECURSIVE model_sum(_, _)
model_sum(MM, summands) ==
    IF summands = {} THEN 0
    ELSE LET i == CHOOSE c \in summands : TRUE
         IN  MM.counts[i] + model_sum(MM, summands \ {i})

RECURSIVE GCD(_, _)
GCD(a, b) == IF b = 0 THEN a ELSE GCD(b, a % b)

NotANumber == [kind |-> "nan", num |-> 0, den |-> 1]
Infinity == [kind |-> "inf", num |-> 0, den |-> 1]
ZeroDistance == [kind |-> "raw", num |-> 0, den |-> 1]

\* (double)SNPs / (double)nucl.
Quotient(kind, SNPs, nucl) ==
    [kind |-> kind, num |-> SNPs \div GCD(SNPs, nucl),
     den |-> nucl \div GCD(SNPs, nucl)]

\* estimate_RAW: NAN for at most three nucleotides.
estimate_RAW(MM) ==
    IF model_total(MM) <= 3 THEN NotANumber
    ELSE Quotient("raw", model_sum(MM, SNPCells), model_total(MM))

\* The Jukes-Cantor correction -0.75 * log(1 - 4/3 * dist) with the fix of
\* the negative zero: NAN stays NAN, 0 gives 0.0, 0.75 gives inf (log 0),
\* more than 0.75 gives NAN (log of a negative number).
JukesCantor(raw) ==
    IF raw.kind = "nan" THEN NotANumber
    ELSE IF raw.num = 0 THEN ZeroDistance
    ELSE IF 4 * raw.num = 3 * raw.den THEN Infinity
    ELSE IF 4 * raw.num > 3 * raw.den THEN NotANumber
    ELSE [raw EXCEPT !.kind = "jc"]

estimate_JC(MM) == JukesCantor(estimate_RAW(MM))

\* -0.25 * log(arg) with arg = num / den, den > 0, and the fix of the
\* negative zero: the log of a negative number is NAN, the log of zero gives
\* inf, an arg of one or more gives 0.0; anything else is a positive number,
\* kept as the fraction in lowest terms.  (Where the exact arg is zero the
\* floating-point arg can be a tiny positive number, and the distance a large
\* number instead of inf; the model writes Infinity for both.)
QuarterLog(kind, num, den) ==
    IF num < 0 THEN NotANumber
    ELSE IF num = 0 THEN Infinity
    ELSE IF num >= den THEN ZeroDistance
    ELSE Quotient(kind, num, den)

\* Kimura's distance from P and Q with nucl > 0:
\* -0.25 * log((1 - 2Q) * tmp * tmp), tmp = 1 - 2P - Q.
Kimura(transitions, transversions, nucl) ==
    QuarterLog("kimura",
               (nucl - 2 * transversions)
                   * (nucl - 2 * transitions - transversions)
                   * (nucl - 2 * transitions - transversions),
               nucl * nucl * nucl)

\* estimate_KIMURA: no test of nucl; 0 / 0 is NAN.
estimate_KIMURA(MM) ==
    IF model_total(MM) = 0 THEN NotANumber
    ELSE Kimura(model_sum(MM, {AtoG, GtoA, CtoT, TtoC}),
                model_sum(MM, {AtoC, CtoA, AtoT, TtoA, GtoC, CtoG, GtoT, TtoG}),
                model_total(MM))

\* The sums of the rows and of the columns of the mutation matrix.
RowSums(MM) ==
    <<model_sum(MM, {AtoA, AtoC, AtoG, AtoT}), model_sum(MM, {CtoA, CtoC, CtoG, CtoT}),
      model_sum(MM, {GtoA, GtoC, GtoG, GtoT}), model_sum(MM, {TtoA, TtoC, TtoG, TtoT})>>
ColSums(MM) ==
    <<model_sum(MM, {AtoA, CtoA, GtoA, TtoA}), model_sum(MM, {AtoC, CtoC, GtoC, TtoC}),
      model_sum(MM, {AtoG, CtoG, GtoG, TtoG}), model_sum(MM, {AtoT, CtoT, GtoT, TtoT})>>

\* detFxy times nucl^4: the determinant of the counts, expanded as in the
\* source.
Minor(c, g1, t1, g2, t2) == c[g1] * c[t1] - c[t2] * c[g2]
detFxy(c) ==
      c[AtoA] * c[CtoC] * Minor(c, GtoG, TtoT, GtoT, TtoG)
    - c[AtoA] * c[CtoG] * Minor(c, GtoC, TtoT, GtoT, TtoC)
    + c[AtoA] * c[CtoT] * Minor(c, GtoC, TtoG, GtoG, TtoC)
    - c[AtoC] * c[CtoA] * Minor(c, GtoG, TtoT, GtoT, TtoG)
    + c[AtoC] * c[CtoG] * Minor(c, GtoA, TtoT, GtoT, TtoA)
    - c[AtoC] * c[CtoT] * Minor(c, GtoA, TtoG, GtoG, TtoA)
    + c[AtoG] * c[CtoA] * Minor(c, GtoC, TtoT, GtoT, TtoC)
    - c[AtoG] * c[CtoC] * Minor(c, GtoA, TtoT, GtoT, TtoA)
    + c[AtoG] * c[CtoT] * Minor(c, GtoA, TtoC, GtoC, TtoA)
    - c[AtoT] * c[CtoA] * Minor(c, GtoC, TtoG, GtoG, TtoC)
    + c[AtoT] * c[CtoC] * Minor(c, GtoA, TtoG, GtoG, TtoA)
    - c[AtoT] * c[CtoG] * Minor(c, GtoA, TtoC, GtoC, TtoA)

Product(q) == q[1] * q[2] * q[3] * q[4]

\* -0.25 * (log(detFxy) - 0.5 * logDetFxxFyy) with all sums positive:
\* -0.125 * log(detFxy^2 / (the product of the row and the column sums)),
\* the powers of nucl cancelling.
LogDet(det, sums) ==
    IF det < 0 THEN NotANumber
    ELSE IF det = 0 THEN Infinity
    ELSE QuarterLog("logdet", det * det, sums)

\* estimate_LOGDET: with nucl = 0 every quotient is NAN; with a row or a
\* column that sums to zero logDetFxxFyy is -inf and detFxy is zero, and
\* log(0) - 0.5 * (-inf) = -inf + inf is NAN.
estimate_LOGDET(MM) ==
    IF model_total(MM) = 0 THEN NotANumber
    ELSE IF Product(RowSums(MM)) * Product(ColSums(MM)) = 0 THEN NotANumber
    ELSE LogDet(detFxy(MM.counts), Product(RowSums(MM)) * Product(ColSums(MM)))

\* The switch of print_distances.
estimate(mdl, MM) ==
    CASE mdl = M_RAW -> estimate_RAW(MM)
      [] mdl = M_KIMURA -> estimate_KIMURA(MM)
      [] mdl = M_LOGDET -> estimate_LOGDET(MM)
      [] OTHER -> estimate_JC(MM)

\* The datum of print_distances for a cell: the sum of D(i,j) and D(j,i),
\* or D(i,j) itself with F_EXTRA_VERBOSE.
Datum(verbose, D, cell) ==
    IF verbose THEN D[cell] ELSE model_average(D[cell], D[<<cell[2], cell[1]>>])

\* print_distances: the matrix DD that is printed.
print_distances(mdl, verbose, D, cells) ==
    [cell \in cells |->
        IF cell[1] = cell[2] THEN ZeroDistance
        ELSE estimate(mdl, Datum(verbose, D, cell))]

\* model_coverage(MM) < 0.2: covered / actual with actual = 0 is inf or NAN,
\* which is not less.
CoverageLow(MM) == MM.seq_len > 0 /\ 5 * model_total(MM) < MM.seq_len

\* print_distances: the warnings of the two loops, each a soft_errx.
print_warnings(DD, D, cells) ==
    {Warning("nan", cell[1], cell[2]) : cell \in {c \in cells : DD[c] = NotANumber}}
        \cup {Warning("coverage", cell[1], cell[2]) :
                 cell \in {c \in cells : /\ DD[c] # NotANumber
                                          /\ c[1] < c[2]
                                          /\ \/ CoverageLow(D[c])
                                             \/ CoverageLow(D[<<c[2], c[1]>>])}}

\* soft_errx: FLAGS |= F_SOFT_ERROR.
SoftErr(flags, warnings) ==
    IF warnings = {} THEN flags ELSE flags \cup {"F_SOFT_ERROR"}

\* The sum of a vector of counts over some cells.
RECURSIVE SumOver(_, _)
SumOver(f, S) ==
    IF S = {} THEN 0
    ELSE LET i == CHOOSE c \in S : TRUE IN f[i] + SumOver(f, S \ {i})

\* gsl_ran_multinomial(RNG, MUTCOUNTS, nucl, p, n): every vector n that
\* sums to nucl and is zero where p is zero can be drawn.
Multinomials(MM) ==
    LET support == {i \in MutationCells : MM.counts[i] > 0}
        nucl == model_total(MM)
    IN  {[i \in MutationCells |-> IF i \in support THEN f[i] ELSE 0] :
            f \in {g \in [support -> 0..nucl] : SumOver(g, support) = nucl}}

model_bootstrapDropLength(MM, n) == [counts |-> n, seq_len |-> 0]

\* model_bootstrap with the vector n drawn.
model_bootstrap(MM, n) == [MM EXCEPT !.counts = n]

\* B(i, i) of calculate_bootstrap.
IdentityModel ==
    [counts |-> [i \in MutationCells |-> IF i = AtoA THEN 1 ELSE 0], seq_len |-> 1]


(***************************************************************************)
(* The bootstrap specification: main parses -b, calculate_distances prints *)
(* the distances of the matrices M and calculate_bootstrap prints one      *)
(* resampled matrix after the other.  The matrices M are degenerate: each  *)
(* has all its counts in one cell.  MODEL is RAW or JC.                    *)
(***************************************************************************)
BootSeqs == {0, 1}
BootCells == BootSeqs \X BootSeqs
BootPairs == {cell \in BootCells : cell[1] < cell[2]}

\* A mutation matrix with all its counts in one cell.
Singleton(cell, cnt) ==
    [counts |-> [i \in MutationCells |-> IF i = cell THEN cnt ELSE 0],
     seq_len |-> cnt]

Singletons == {Singleton(cell, cnt) : cell \in {AtoA, AtoC}, cnt \in 1..MaxCount}

\* The tables M of degenerate matrices; M(i,i) is never used.
SingletonTables ==
    {M \in [BootCells -> Singletons \cup {IdentityModel}] :
        \A cell \in BootCells : cell[1] = cell[2] <=> M[cell] = IdentityModel}

\* case 'b' of main: zero is refused with a soft error and BOOTSTRAP stays
\* as it is; otherwise BOOTSTRAP = bootstrap - 1.
ParseBootstrapAll(bootstrap, old) ==
    IF bootstrap = 0 THEN old ELSE bootstrap

ParseBootstrap(bootstrap, old) ==
    IF bootstrap = 0 THEN old ELSE bootstrap - 1

\* The tables B one pass of the loop of calculate_bootstrap can build for the
\* pairs given: B(i,i) is the identity, B(i,j) = B(j,i) is the resampled sum
\* of M(i,j) and M(j,i).
RECURSIVE BootTables(_, _)
BootTables(M, pairs) ==
    IF pairs = {} THEN {[cell \in BootCells |-> IdentityModel]}
    ELSE LET pair == CHOOSE c \in pairs : TRUE
             datum == model_average(M[pair], M[<<pair[2], pair[1]>>])
         IN  {[B EXCEPT ![pair] = model_bootstrap(datum, n),
                        ![<<pair[2], pair[1]>>] = model_bootstrap(datum, n)] :
                 B \in BootTables(M, pairs \ {pair}), n \in Multinomials(datum)}

Matrix(kind, DD) == [kind |-> kind, DD |-> DD]

InitBoot ==
    /\ pc = "options"
    /\ optarg \in 0..MaxBoot
    /\ BOOTSTRAP = 0
    /\ extraVerbose \in BOOLEAN
    /\ MODEL \in {M_RAW, M_JC}
    /\ counted \in SingletonTables
    /\ printed = <<>>
    /\ minLength = 0
    /\ dist = NoDist
    /\ EsaIdle /\ MatchIdle /\ ThresholdIdle /\ DriverIdle
    /\ RunIdle /\ SeqIdle /\ DescIdle /\ ResIdle /\ LoopIdle

\* main: case 'b'.
OptionB ==
    /\ pc = "options"
    /\ BOOTSTRAP' = ParseBootstrap(optarg, BOOTSTRAP)
    /\ pc' = "distances"
    /\ UNCHANGED <<resVars, loopVars, runVars, seqVars, descVars, esaVars, matchVars, anchorVars, thresholdVars, driverVars,
                   optarg, extraVerbose, counted, printed>>

\* calculate_distances: print_distances(M, sequences, n, 1).
PrintPrimary ==
    /\ pc = "distances"
    /\ LET DD == print_distances(MODEL, extraVerbose, counted, BootCells)
       IN  /\ printed' = Append(printed, Matrix("primary", DD))
           /\ warned' = warned \cup print_warnings(DD, counted, BootCells)
           /\ FLAGS' = SoftErr(FLAGS, print_warnings(DD, counted, BootCells))
    /\ pc' = "bootstrap"
    /\ UNCHANGED <<resVars, loopVars, lens, status, seqVars, descVars, esaVars, matchVars, anchorVars,
                   thresholdVars, driverVars, optarg, BOOTSTRAP, extraVerbose,
                   counted>>

\* calculate_distances: if (BOOTSTRAP) fails.
SkipBootstrap ==
    /\ pc = "bootstrap"
    /\ BOOTSTRAP = 0
    /\ pc' = "exit"
    /\ UNCHANGED <<resVars, loopVars, runVars, seqVars, descVars, esaVars, matchVars, anchorVars, thresholdVars, driverVars,
                   bootVars>>

\* calculate_distances: if (BOOTSTRAP) calculate_bootstrap(M, sequences, n).
EnterBootstrap ==
    /\ pc = "bootstrap"
    /\ BOOTSTRAP # 0
    /\ pc' = "loop"
    /\ UNCHANGED <<resVars, loopVars, runVars, seqVars, descVars, esaVars, matchVars, anchorVars, thresholdVars, driverVars,
                   bootVars>>

\* One pass of while (BOOTSTRAP--): B is drawn and printed.
Replicate ==
    /\ pc = "loop"
    /\ BOOTSTRAP # 0
    /\ BOOTSTRAP' = BOOTSTRAP - 1
    /\ \E B \in BootTables(counted, BootPairs) :
          printed' = Append(printed,
                            Matrix("replicate",
                                   print_distances(MODEL, extraVerbose, B,
                                                   BootCells)))
    /\ UNCHANGED <<resVars, loopVars, runVars, seqVars, descVars, pc, esaVars, matchVars, anchorVars, thresholdVars, driverVars,
                   optarg, extraVerbose, counted>>

\* while (BOOTSTRAP--) finds zero: the unsigned counter wraps to ULONG_MAX,
\* written -1 here, and calculate_bootstrap returns.
LeaveBootstrap ==
    /\ pc = "loop"
    /\ BOOTSTRAP = 0
    /\ BOOTSTRAP' = -1
    /\ pc' = "exit"
    /\ UNCHANGED <<resVars, loopVars, runVars, seqVars, descVars, esaVars, matchVars, anchorVars, thresholdVars, driverVars,
                   optarg, extraVerbose, counted, printed>>

NextBoot ==
    \/ OptionB \/ PrintPrimary \/ SkipBootstrap \/ EnterBootstrap
    \/ Replicate \/ LeaveBootstrap

SpecBoot == InitBoot /\ [][NextBoot]_vars

\* The number of replicates printed.
Replicates == Len(printed) - 1

ReplicatesEqualPrimary ==
    \A n \in 2..Len(printed) : printed[n].DD = printed[1].DD


(***************************************************************************)
(* andi.c and io.c: the run of main once the sequences are read.  main     *)
(* validates the sequences, calculate_distances prints the distances of    *)
(* the matrices M, and main returns the exit status.  The matrices M are   *)
(* what the driver left: counts in a few cells, seq_len the length of the  *)
(* query.  No bootstrap is asked for.                                      *)
(***************************************************************************)
\* andi.c: LENGTH_LIMIT = (INT_MAX - 1) / 2 and the length below which a
\* sequence is short.
LENGTH_LIMIT == 1073741823
SHORT_LENGTH == 1000

LenValues == {0, SHORT_LENGTH - 1, SHORT_LENGTH, LENGTH_LIMIT + 1}

\* A mutation matrix with a matches of A, v transversions and t transitions
\* from A, and d matches of each of C, G and T.
Tally(a, v, t, d, len) ==
    [counts |-> [i \in MutationCells |->
                    CASE i = AtoA -> a
                      [] i = AtoC -> v
                      [] i = AtoG -> t
                      [] i \in {CtoC, GtoG, TtoT} -> d
                      [] OTHER -> 0],
     seq_len |-> len]

TallyCounts == (0..MaxCount) \cup {BigCount}

\* The tables M of two sequences of the lengths given.
RunTables(len) ==
    {[cell \in BootCells |->
         CASE cell = <<0, 1>> -> Tally(a, v, t, d, len[1])
           [] cell = <<1, 0>> -> Tally(b, 0, 0, 0, len[0])
           [] OTHER -> IdentityModel] :
        a \in TallyCounts, v \in 0..1, t \in 0..1, d \in 0..1,
        b \in TallyCounts}

\* The checks of main that end the run with errx.
IsFatal(len) == len > LENGTH_LIMIT \/ len = 0

\* The warnings that come from soft_err and soft_errx.
SoftKinds == {"option", "short", "nan", "coverage"}

InitRun ==
    /\ pc = "validate"
    /\ lens \in [BootSeqs -> LenValues]
    /\ \E stripped \in BOOLEAN, refused \in BOOLEAN :
          /\ FLAGS = (IF stripped THEN {"F_NON_ACGT"} ELSE {})
                        \cup (IF refused THEN {"F_SOFT_ERROR"} ELSE {})
          /\ warned = (IF refused THEN {Warning("option", -1, -1)} ELSE {})
    /\ status = -1
    /\ MODEL \in {M_RAW, M_JC, M_KIMURA, M_LOGDET}
    /\ extraVerbose \in BOOLEAN
    /\ optarg = 0
    /\ BOOTSTRAP = 0
    /\ counted \in (IF \E i \in BootSeqs : IsFatal(lens[i])
                    THEN {[cell \in BootCells |-> IdentityModel]}
                    ELSE RunTables(lens))
    /\ printed = <<>>
    /\ minLength = 0
    /\ dist = NoDist
    /\ EsaIdle /\ MatchIdle /\ ThresholdIdle /\ DriverIdle
    /\ SeqIdle /\ DescIdle /\ ResIdle /\ LoopIdle

\* The loop of main over the sequences from sequence i on: the run ends at
\* the first sequence that is too long or empty; a short one sets F_SHORT.
RECURSIVE ValidateLoop(_, _, _)
ValidateLoop(len, i, flags) ==
    IF i \notin DOMAIN len THEN [fatal |-> -1, flags |-> flags]
    ELSE IF IsFatal(len[i]) THEN [fatal |-> i, flags |-> flags]
    ELSE ValidateLoop(len, i + 1,
                      IF len[i] < SHORT_LENGTH THEN flags \cup {"F_SHORT"}
                      ELSE flags)

\* main: the warning about stripped characters.
WarnStripped(flags) ==
    IF "F_NON_ACGT" \in flags THEN {Warning("non_acgt", -1, -1)} ELSE {}

\* main: "validate sequence correctness" and the warning about short
\* sequences.
Validate ==
    /\ pc = "validate"
    /\ LET v == ValidateLoop(lens, 0, FLAGS)
       IN  IF v.fatal # -1
           THEN /\ FLAGS' = v.flags
                /\ warned' = warned \cup WarnStripped(FLAGS)
                                    \cup {Warning("fatal", v.fatal, -1)}
                /\ status' = 1
                /\ pc' = "aborted"
           ELSE /\ FLAGS' = SoftErr(v.flags, v.flags \cap {"F_SHORT"})
                /\ warned' = warned \cup WarnStripped(FLAGS)
                                    \cup (IF "F_SHORT" \in v.flags
                                          THEN {Warning("short", -1, -1)}
                                          ELSE {})
                /\ status' = status
                /\ pc' = "distances"
    /\ UNCHANGED <<resVars, loopVars, lens, seqVars, descVars, esaVars, matchVars, anchorVars,
                   thresholdVars, driverVars, bootVars>>

\* return FLAGS & F_SOFT_ERROR ? EXIT_FAILURE : EXIT_SUCCESS.
ExitStatusSuccess(flags) == 0

ExitStatus(flags) == IF "F_SOFT_ERROR" \in flags THEN 1 ELSE 0

\* main returns after calculate_distances.
MainReturn ==
    /\ pc = "exit"
    /\ status = -1
    /\ status' = ExitStatus(FLAGS)
    /\ pc' = "terminated"
    /\ UNCHANGED <<resVars, loopVars, FLAGS, warned, lens, seqVars, descVars, esaVars, matchVars,
                   anchorVars, thresholdVars, driverVars, bootVars>>

NextRun == Validate \/ PrintPrimary \/ SkipBootstrap \/ MainReturn

SpecRun == InitRun /\ [][NextRun]_vars

\* C11: under every model, a pair whose datum handed to the estimator has
\* counts that sum to at most 3 is printed as nan, the warning about it is
\* emitted and the soft-error flag is set.
DegenerateIsNaN ==
    Len(printed) >= 1 =>
        \A cell \in BootCells :
            (cell[1] # cell[2]
                /\ model_total(Datum(extraVerbose, counted, cell)) <= 3)
            => /\ printed[1].DD[cell] = NotANumber
               /\ Warning("nan", cell[1], cell[2]) \in warned
               /\ "F_SOFT_ERROR" \in FLAGS

\* Under RAW and JC such a pair is printed as nan, warned about and flagged.
DegenerateIsNaNUnderRawAndJC ==
    (Len(printed) >= 1 /\ MODEL \in {M_RAW, M_JC}) =>
        \A cell \in BootCells :
            (cell[1] # cell[2]
                /\ model_total(Datum(extraVerbose, counted, cell)) <= 3)
            => /\ printed[1].DD[cell] = NotANumber
               /\ Warning("nan", cell[1], cell[2]) \in warned
               /\ "F_SOFT_ERROR" \in FLAGS


\* The subjects esa_init failed for: only they have NAN in their row of D.
FailedSubjects == {i \in Seqs : \E j \in Seqs : table.D[<<i, j>>] = NAN}

\* The row of a subject whose index failed is NAN off the diagonal, with
\* coverage 0.
FailedRowIsNaN ==
    pc = "returned" =>
        \A i \in FailedSubjects : \A j \in Seqs \ {i} :
            table.D[<<i, j>>] = NAN /\ table.C[<<i, j>>] = 0

\* The row of every other subject holds the distances of its pairs.
OtherRowsComputed ==
    (pc = "returned" /\ FailedSubjects # {}) =>
        \A i \in Seqs \ FailedSubjects : \A j \in Seqs \ {i} :
            table.D[<<i, j>>] = distOf[<<i, j>>]

\* A failed index sets the soft-error flag.
IndexFailureFlagged ==
    (pc = "returned" /\ FailedSubjects # {}) => "F_SOFT_ERROR" \in FLAGS

\* C12: if esa_init fails for subject i, every off-diagonal cell of row i is
\* NAN with coverage 0, the rows of all other subjects are computed as
\* usual, and the soft-error flag is set.
IndexFailureIsContained ==
    (pc = "returned" /\ FailedSubjects # {}) =>
        /\ \A i \in FailedSubjects : \A j \in Seqs \ {i} :
               table.D[<<i, j>>] = NAN /\ table.C[<<i, j>>] = 0
        /\ \A i \in Seqs \ FailedSubjects : \A j \in Seqs \ {i} :
               table.D[<<i, j>>] = distOf[<<i, j>>]
        /\ "F_SOFT_ERROR" \in FLAGS


\* Whether the soft-error flag is set, and the phases of a run past the
\* validation of the sequences.
SoftError == "F_SOFT_ERROR" \in FLAGS
Validated == pc \in {"distances", "bootstrap", "exit", "terminated"}

\* The flag is set by the warnings of soft_errx and by nothing else: a short
\* sequence in a validated run and a pair printed as nan or with a coverage
\* below 0.2 set it, stripped characters do not.
FlagFollowsWarnings ==
    /\ SoftError <=> \E w \in warned : w.kind \in SoftKinds
    /\ (Validated /\ \E i \in BootSeqs : lens[i] < SHORT_LENGTH) => SoftError
    /\ Len(printed) >= 1 =>
           \A cell \in BootPairs :
               \/ printed[1].DD[cell] = NotANumber
               \/ printed[1].DD[<<cell[2], cell[1]>>] = NotANumber
               \/ CoverageLow(counted[cell])
               \/ CoverageLow(counted[<<cell[2], cell[1]>>])
               => SoftError

\* C13 as stated: the process exits with a non-zero status if and only if
\* the soft-error flag is set when it ends; the flag is set whenever a
\* sequence shorter than 1000 nucleotides was given or a pair was warned
\* about, and stripping alone does not set it.
ExitsNonZeroIffSoftError ==
    /\ status # -1 => (status # 0 <=> SoftError)
    /\ FlagFollowsWarnings

\* C13: a run main completes exits with a non-zero status if and only if the
\* soft-error flag is set when main returns, a run ended by a fatal error
\* exits with a non-zero status whatever the flag, and the flag follows the
\* warnings as above.
ExitStatusFollowsFlag ==
    /\ status # -1 <=> pc \in {"terminated", "aborted"}
    /\ pc = "terminated" => (status # 0 <=> SoftError)
    /\ pc = "aborted" => status # 0
    /\ FlagFollowsWarnings

\* A run whose sequences had characters stripped and that ends with status 0.
CleanExitAfterStripping ==
    pc = "terminated" /\ status = 0 /\ "F_NON_ACGT" \in FLAGS


(***************************************************************************)
(* sequence.c: seq_init with normalize, seq_subject_init and revcomp on    *)
(* the bytes read for one sequence.                                        *)
(***************************************************************************)
\* Bytes of the input besides the ones above: lower-case nucleotides and a
\* byte that is no nucleotide.
ChLowerA == 97
ChLowerC == 99
ChLowerG == 103
ChLowerT == 116
ChN == 78

InputAlphabet ==
    Nucleotides \cup {ChBang, ChLowerA, ChLowerC, ChLowerG, ChLowerT, ChN}

\* The switch of normalize for one byte: the bytes written to *q.
NormalizeByteKeepCase(c) ==
    IF c \in Nucleotides \cup {ChBang, ChLowerA, ChLowerC, ChLowerG, ChLowerT}
    THEN <<c>> ELSE <<>>

NormalizeByte(c) ==
    IF c \in Nucleotides \cup {ChBang} THEN <<c>>
    ELSE IF c \in {ChLowerA, ChLowerC, ChLowerG, ChLowerT} THEN <<c - 32>>
    ELSE <<>>

\* The loop of normalize over the bytes from p on: what is written through q
\* and local_non_acgt.
RECURSIVE NormalizeLoop(_, _, _, _)
NormalizeLoop(str, p, out, local_non_acgt) ==
    IF p > Len(str) THEN [S |-> out, non_acgt |-> local_non_acgt]
    ELSE NormalizeLoop(str, p + 1, out \o NormalizeByte(str[p]),
                       local_non_acgt \/ NormalizeByte(str[p]) = <<>>)

normalize(str) == NormalizeLoop(str, 1, <<>>, FALSE)

\* calc_gc: the number of G and C; the content is this number over len.
RECURSIVE calc_gc(_)
calc_gc(str) ==
    IF Len(str) = 0 THEN 0
    ELSE calc_gc(Tail(str)) + (IF Head(str) \in {ChG, ChC} THEN 1 ELSE 0)

\* What a call of revcomp can yield.  For an empty string the behaviour is
\* undefined: the call does not return or returns what it found in memory.
\* Otherwise it returns a buffer of len bytes, the bytes behind a shortened
\* reverse complement as malloc returned them (w).
RevcompOutcomes(str, w) ==
    IF Len(str) = 0
    THEN {NoReturn} \cup Strings(Nucleotides \cup {ChSemi}, 0, 1)
    ELSE {[k \in 1..Len(str) |->
              IF k <= Len(revcomp(str)) THEN revcomp(str)[k] ELSE w]}

InitSeq ==
    /\ pc = "read"
    /\ input \in Strings(InputAlphabet, 0, MaxInput)
    /\ seq = NoSeq
    /\ revs = <<>>
    /\ wild \in WildValues
    /\ FLAGS \in {{}, {"F_NON_ACGT"}}
    /\ warned = {}
    /\ lens = <<>>
    /\ status = -1
    /\ subject = <<>>
    /\ esa = NoESA
    /\ MatchIdle /\ AnchorIdle /\ ThresholdIdle /\ DriverIdle /\ BootIdle
    /\ DescIdle /\ ResIdle /\ LoopIdle

\* seq_init: strdup, normalize, strlen.
SeqInit ==
    /\ pc = "read"
    /\ seq' = [seq EXCEPT !.S = normalize(input).S,
                          !.len = Len(normalize(input).S)]
    /\ FLAGS' = IF normalize(input).non_acgt THEN FLAGS \cup {"F_NON_ACGT"}
                ELSE FLAGS
    /\ pc' = "sequence"
    /\ UNCHANGED <<resVars, loopVars, warned, lens, status, input, revs, descVars, esaVars, matchVars,
                   anchorVars, thresholdVars, driverVars, bootVars>>

\* seq_subject_init: gc, RS = catcomp(S, len) and RSlen; the threshold is
\* min_anchor_length of these.  catcomp calls revcomp first.
SubjectInit ==
    /\ pc = "sequence"
    /\ \E rc \in RevcompOutcomes(seq.S, wild) :
          IF rc = NoReturn
          THEN pc' = "killed" /\ seq' = seq
          ELSE /\ pc' = "subject"
               /\ seq' = [seq EXCEPT !.RS = catcomp(seq.S, wild),
                                     !.RSlen = 2 * seq.len + 1]
    /\ UNCHANGED <<resVars, loopVars, runVars, input, revs, descVars, esaVars, matchVars, anchorVars,
                   thresholdVars, driverVars, bootVars>>

\* revcomp of the sequence, and then of what the call before returned.
Revcomp ==
    /\ pc = "sequence"
    /\ Len(revs) < 2
    /\ \E rc \in RevcompOutcomes(IF revs = <<>> THEN seq.S ELSE revs[Len(revs)],
                                wild) :
          IF rc = NoReturn
          THEN pc' = "killed" /\ revs' = revs
          ELSE pc' = pc /\ revs' = Append(revs, rc)
    /\ UNCHANGED <<resVars, loopVars, runVars, input, seq, descVars, esaVars, matchVars, anchorVars,
                   thresholdVars, driverVars, bootVars>>

NextSeq == SeqInit \/ SubjectInit \/ Revcomp

SpecSeq == InitSeq /\ [][NextSeq]_vars


\* The complement of a byte of a normalised sequence.
ComplementOf(c) ==
    CASE c = ChA -> ChT
      [] c = ChT -> ChA
      [] c = ChC -> ChG
      [] c = ChG -> ChC
      [] c = ChBang -> ChSemi

\* The reverse complement of S, a '#', then S, byte by byte.
ReverseHashForward(S) ==
    [k \in 1..(2 * Len(S) + 1) |->
        IF k <= Len(S) THEN ComplementOf(S[Len(S) + 1 - k])
        ELSE IF k = Len(S) + 1 THEN ChHash
        ELSE S[k - Len(S) - 1]]

\* C14: for a normalised sequence S of length >= 1, seq_subject_init yields
\* RS = the reverse complement of S, then '#', then S, and RSlen = 2|S| + 1.
SubjectIsReverseHashForward ==
    (pc = "subject" /\ seq.len >= 1) =>
        /\ seq.RS = ReverseHashForward(seq.S)
        /\ seq.RSlen = 2 * Len(seq.S) + 1
        /\ Len(seq.RS) = seq.RSlen

\* A subject of three bytes with a '!' and a G in it.
SubjectWithBangInitialised ==
    /\ pc = "subject"
    /\ seq.len = 3
    /\ \E k \in 1..3 : seq.S[k] = ChBang
    /\ \E k \in 1..3 : seq.S[k] = ChG

\* The bytes seq_init keeps, and the upper case of a kept byte.
IsKept(c) ==
    c \in {ChA, ChC, ChG, ChT, ChBang, ChLowerA, ChLowerC, ChLowerG, ChLowerT}
Upper(c) ==
    CASE c = ChLowerA -> ChA
      [] c = ChLowerC -> ChC
      [] c = ChLowerG -> ChG
      [] c = ChLowerT -> ChT
      [] OTHER -> c
Kept(str) ==
    [k \in 1..Len(SelectSeq(str, IsKept)) |-> Upper(SelectSeq(str, IsKept)[k])]

RevcompRoundTrip ==
    (pc # "read" /\ \A k \in 1..Len(seq.S) : seq.S[k] \in Nucleotides) =>
        /\ pc # "killed"
        /\ Len(revs) = 2 => revs[2] = seq.S

\* For a string of at least one nucleotide it does.
RevcompRoundTripNonEmpty ==
    (seq.len >= 1 /\ \A k \in 1..Len(seq.S) : seq.S[k] \in Nucleotides) =>
        /\ pc # "killed"
        /\ Len(revs) = 2 => revs[2] = seq.S


(***************************************************************************)
(* The arrays of the ESA and the descent through its lcp-intervals.        *)
(***************************************************************************)
\* Whether the suffixes of s at p and at q agree on their first l bytes.
AgreeOn(s, p, q, l) ==
    \A k \in 0..(l - 1) :
        p + k < Len(s) /\ q + k < Len(s) /\ At(s, p + k) = At(s, q + k)

\* C17: for the ESA built from RS of length n, LCP[0] = LCP[n] = -1, for
\* every i in [1, n) the suffixes at SA[i-1] and SA[i] agree on exactly
\* LCP[i] bytes and differ at the next one, and
\* FVC[i] = RS[SA[i] + LCP[i]].
LcpAndFvcExact ==
    pc # "subject" =>
        /\ esa.LCP[0] = -1
        /\ esa.LCP[esa.len] = -1
        /\ \A i \in 1..(esa.len - 1) :
              /\ esa.LCP[i] >= 0
              /\ AgreeOn(esa.S, esa.SA[i - 1], esa.SA[i], esa.LCP[i])
              /\ ~AgreeOn(esa.S, esa.SA[i - 1], esa.SA[i], esa.LCP[i] + 1)
              /\ esa.FVC[i] = At(esa.S, esa.SA[i] + esa.LCP[i])

\* The ESA of a subject of MaxSubject bytes in which two neighbouring
\* suffixes share two bytes or more and a first variant character is '#'.
EsaWithLongPrefixBuilt ==
    /\ pc = "esa"
    /\ Len(subject) = MaxSubject
    /\ \E i \in 1..(esa.len - 1) : esa.LCP[i] >= 2
    /\ \E i \in 1..(esa.len - 1) : esa.FVC[i] = ChHash


\* The first l-index of the lcp-interval [i, j] of depth l.
FirstLIndex(self, i, j, l) ==
    CHOOSE k \in (i + 1)..j :
        self.LCP[k] = l /\ \A h \in (i + 1)..(k - 1) : self.LCP[h] # l

\* The lcp-intervals of the ESA with two suffixes or more: [i, j] is maximal
\* for the depth l = min LCP[i+1..j].
LcpIntervals(self) ==
    {[i |-> i, j |-> j, l |-> l, m |-> FirstLIndex(self, i, j, l)] :
        <<i, j, l>> \in
            {t \in (0..(self.len - 1)) \X (0..(self.len - 1)) \X (0..self.len) :
                /\ t[1] < t[2]
                /\ \A k \in (t[1] + 1)..t[2] : self.LCP[k] >= t[3]
                /\ \E k \in (t[1] + 1)..t[2] : self.LCP[k] = t[3]
                /\ self.LCP[t[1]] < t[3]
                /\ self.LCP[t[2] + 1] < t[3]}}

\* The singleton intervals, at every depth within the suffix.
SingletonIntervals(self) ==
    {[i |-> i, j |-> i, l |-> l, m |-> i] :
        <<i, l>> \in {t \in (0..(self.len - 1)) \X (0..self.len) :
                         self.SA[t[1]] + t[2] <= self.len}}

\* The bytes RS can hold.
TextAlphabet == {ChBang, ChHash, ChSemi, ChA, ChC, ChG, ChT}

InitDescend == InitMatch

\* A walk from the root interval along the substring RS[a..b) begins.
Descend ==
    /\ pc = "esa"
    /\ \E a \in 0..(esa.len - 1) : \E b \in a..esa.len :
          walk' = [NoWalk EXCEPT !.a = a, !.b = b]
    /\ node' = RootInterval(esa)
    /\ pc' = "descending"
    /\ UNCHANGED <<resVars, loopVars, runVars, seqVars, esaVars, matchVars, anchorVars,
                   thresholdVars, driverVars, bootVars>>

\* One call of get_interval with the next character of the substring.
DescendStep ==
    /\ pc = "descending"
    /\ walk.k < walk.b - walk.a
    /\ ~IsEmpty(node)
    /\ node' = get_interval(esa, node, At(esa.S, walk.a + walk.k))
    /\ walk' = [walk EXCEPT !.k = walk.k + 1]
    /\ UNCHANGED <<resVars, loopVars, pc, runVars, seqVars, esaVars, matchVars, anchorVars,
                   thresholdVars, driverVars, bootVars>>

\* One call of get_interval on an lcp-interval of the ESA.
Probe ==
    /\ pc = "esa"
    /\ \E ij \in LcpIntervals(esa) \cup SingletonIntervals(esa) :
          \E a \in TextAlphabet :
             /\ walk' = [NoWalk EXCEPT !.ij = ij, !.ch = a]
             /\ node' = get_interval(esa, ij, a)
    /\ pc' = "probed"
    /\ UNCHANGED <<resVars, loopVars, runVars, seqVars, esaVars, matchVars, anchorVars,
                   thresholdVars, driverVars, bootVars>>

\* get_match with the substring RS[a..b) as the query.
MatchSubstring ==
    /\ pc = "esa"
    /\ \E a \in 0..(esa.len - 1) : \E b \in (a + 1)..esa.len :
          /\ walk' = [NoWalk EXCEPT !.a = a, !.b = b]
          /\ node' = get_match(esa, SubSeq(esa.S, a + 1, b), b - a)
    /\ pc' = "found"
    /\ UNCHANGED <<resVars, loopVars, runVars, seqVars, esaVars, matchVars, anchorVars,
                   thresholdVars, driverVars, bootVars>>

\* The caller is done with the interval.
DescendDone ==
    /\ \/ pc \in {"probed", "found"}
       \/ pc = "descending" /\ (walk.k = walk.b - walk.a \/ IsEmpty(node))
    /\ pc' = "esa"
    /\ walk' = NoWalk
    /\ node' = NoInterval
    /\ UNCHANGED <<resVars, loopVars, runVars, seqVars, esaVars, matchVars, anchorVars,
                   thresholdVars, driverVars, bootVars>>

NextDescend == EsaInit \/ Descend \/ DescendStep \/ Probe \/ MatchSubstring \/ DescendDone

SpecDescend == InitDescend /\ [][NextDescend]_vars

\* Whether the SA range of the interval holds the suffix starting at a.
HoldsSuffix(self, ij, a) == \E k \in ij.i..ij.j : self.SA[k] = a

\* C18: get_interval applied from the root interval once per character of a
\* substring RS[a..b), in order, yields a non-empty lcp-interval with
\* l = b - a whose SA range contains the suffix starting at a.
DescendYieldsSubstringInterval ==
    (pc = "descending" /\ (walk.k = walk.b - walk.a \/ IsEmpty(node))) =>
        /\ ~IsEmpty(node)
        /\ node.l = walk.b - walk.a
        /\ HoldsSuffix(esa, node, walk.a)

\* get_match of the substring RS[a..b), which calls get_interval with the
\* character at the depth reached and takes the further characters of the
\* interval's label by comparison, returns a non-empty {i, j, l} with
\* l = b - a whose SA range contains the suffix starting at a and only
\* suffixes that begin with RS[a..b).
MatchYieldsSubstringInterval ==
    pc = "found" =>
        /\ ~IsEmpty(node)
        /\ 0 <= node.i /\ node.i <= node.j /\ node.j < esa.len
        /\ node.l = walk.b - walk.a
        /\ HoldsSuffix(esa, node, walk.a)
        /\ \A k \in node.i..node.j :
              AgreeOn(esa.S, esa.SA[k], walk.a, walk.b - walk.a)

\* A substring of three bytes across the '#' was matched.
SubstringAcrossHashMatched ==
    /\ pc = "found"
    /\ walk.b - walk.a = 3
    /\ At(esa.S, walk.a + 1) = ChHash

\* The suffixes of the interval whose byte at offset l is a.
SubRange(self, ij, a) ==
    {k \in ij.i..ij.j : At(self.S, self.SA[k] + ij.l) = a}

\* C19: for an lcp-interval ij of two suffixes or more with its exact l and
\* first l-index m, get_interval(ij, a) returns exactly the SA range of the
\* suffixes of [i, j] whose byte at offset l is a, and the empty interval if
\* and only if there is none; for a singleton it accepts if and only if
\* RS[SA[i] + l] = a.
SingleStepIsExact ==
    pc = "probed" =>
        /\ IsEmpty(node) <=> SubRange(esa, walk.ij, walk.ch) = {}
        /\ ~IsEmpty(node) => node.i..node.j = SubRange(esa, walk.ij, walk.ch)

\* A step from an interval of three suffixes or more to a child of two or
\* more that is not its first child.
InnerChildReturned ==
    /\ pc = "probed"
    /\ walk.ij.j - walk.ij.i >= 2
    /\ node.i > walk.ij.i
    /\ node.j > node.i


(***************************************************************************)
(* The lucky-anchor shortcut.                                              *)
(***************************************************************************)
\* The gap between the n-th accepted anchor and the one before it.
GapBefore(accepted, n) ==
    accepted[n].pos_Q - accepted[n - 1].pos_Q - accepted[n - 1].length

\* C20: the lucky-anchor shortcut is attempted only after an anchor has been
\* accepted and when the gap to its end is at most the threshold: the first
\* anchor dist_anchor accepts comes from the match engine, and an anchor the
\* shortcut accepts lies at most the threshold behind the anchor before it.
LuckyOnlyAfterAnchor ==
    pc = "dist" =>
        \A n \in 1..Len(dist.accepted) :
            dist.accepted[n].lucky =>
                /\ n > 1
                /\ GapBefore(dist.accepted, n) >= 0
                /\ GapBefore(dist.accepted, n) <= minLength

\* After an accepted anchor the shortcut keeps to the gap.
LuckyGapWithinThreshold ==
    pc = "dist" =>
        \A n \in 2..Len(dist.accepted) :
            dist.accepted[n].lucky =>
                /\ GapBefore(dist.accepted, n) >= 0
                /\ GapBefore(dist.accepted, n) <= minLength


(***************************************************************************)
(* Acceptance of anchors.                                                  *)
(***************************************************************************)
\* The context of the call of dist_anchor the state holds.
CallContext ==
    [C |-> esa, query |-> qry, query_length |-> Len(qry),
     threshold |-> minLength, MODEL |-> MODEL]

\* The candidate the match engine finds for the query from pos_Q on.
Candidate(pos_Q) ==
    get_match_cached(esa, SubSeq(qry, pos_Q + 1, Len(qry)), Len(qry) - pos_Q)

\* Whether the accepted anchor a is an exact match inside RS and Q.
IsExactMatch(a) ==
    /\ a.pos_S >= 0 /\ a.pos_S + a.length <= esa.len
    /\ a.pos_Q >= 0 /\ a.pos_Q + a.length <= Len(qry)
    /\ \A k \in 0..(a.length - 1) :
           At(qry, a.pos_Q + k) = At(esa.S, a.pos_S + k)

\* A candidate of the match engine is accepted by anchor if and only if its
\* interval is a singleton and its length is at least the threshold.
EngineAcceptsSingletons ==
    pc = "dist" =>
        \A p \in 0..(Len(qry) - 1) :
            anchor(CallContext, [pos_S |-> 0, pos_Q |-> 0, length |-> 0],
                   [pos_S |-> 0, pos_Q |-> p, length |-> 0]).ok
                <=> (Candidate(p).i = Candidate(p).j
                         /\ Candidate(p).l >= minLength)

\* Every accepted anchor is at least as long as the threshold.
AcceptedAreLong ==
    pc = "dist" =>
        \A n \in 1..Len(dist.accepted) : dist.accepted[n].length >= minLength

\* C21: a candidate of the match engine is accepted if and only if its
\* lcp-interval is a singleton and its length is at least the threshold T,
\* and every accepted anchor, lucky or not, has length >= T, lies inside RS
\* and inside Q and is an exact match of Q[pos_Q..pos_Q+length) with
\* RS[pos_S..pos_S+length).
AcceptedAnchorsAreExact ==
    pc = "dist" =>
        /\ \A p \in 0..(Len(qry) - 1) :
               anchor(CallContext, [pos_S |-> 0, pos_Q |-> 0, length |-> 0],
                      [pos_S |-> 0, pos_Q |-> p, length |-> 0]).ok
                   <=> (Candidate(p).i = Candidate(p).j
                            /\ Candidate(p).l >= minLength)
        /\ \A n \in 1..Len(dist.accepted) :
               /\ dist.accepted[n].length >= minLength
               /\ IsExactMatch(dist.accepted[n])

\* Every anchor the lucky-anchor shortcut accepts is an exact match.
LuckyAnchorsAreExact ==
    pc = "dist" =>
        \A n \in 1..Len(dist.accepted) :
            dist.accepted[n].lucky => IsExactMatch(dist.accepted[n])


(***************************************************************************)
(* The accounting of anchors and bridges.                                  *)
(***************************************************************************)
\* The empty anchor dist_anchor starts with.
EmptyAnchor == [pos_S |-> 0, pos_Q |-> 0, length |-> 0]

\* Whether t is a colinear right anchor of l.
IsPair(l, t) ==
    /\ t.pos_S > l.pos_S + l.length
    /\ t.pos_Q - (l.pos_Q + l.length) = t.pos_S - (l.pos_S + l.length)

\* The query positions of an anchor and of the bridge between two anchors.
AnchorRange(a) == a.pos_Q..(a.pos_Q + a.length - 1)
BridgeRange(l, t) == (l.pos_Q + l.length)..(t.pos_Q - 1)

\* How many of the tallied ranges cover the query position p.
TimesTallied(p) ==
    Cardinality({n \in 1..Len(dist.tallied) : p \in RangeOf(dist.tallied[n])})

\* The accepted anchor before the n-th one; the empty anchor before the first.
Before(n) == IF n = 1 THEN EmptyAnchor ELSE dist.accepted[n - 1]

\* C22: the positions of an accepted anchor are tallied exactly once if the
\* anchor is the left or the right member of a colinear pair of accepted
\* anchors or is at least 2T long, and not at all otherwise; a position
\* outside the accepted anchors is tallied only between the two members of
\* such a pair.
AnchorsTalliedByPairs ==
    pc = "dist" =>
        /\ \A n \in 1..Len(dist.accepted) :
              \A p \in AnchorRange(dist.accepted[n]) :
                 TimesTallied(p) =
                    IF \/ n >= 2 /\ IsPair(dist.accepted[n - 1], dist.accepted[n])
                       \/ n < Len(dist.accepted)
                              /\ IsPair(dist.accepted[n], dist.accepted[n + 1])
                       \/ dist.accepted[n].length >= 2 * minLength
                    THEN 1 ELSE 0
        /\ \A p \in 0..(Len(qry) - 1) :
              (TimesTallied(p) >= 1
                  /\ \A n \in 1..Len(dist.accepted) :
                         p \notin AnchorRange(dist.accepted[n])) =>
                  \E n \in 2..Len(dist.accepted) :
                      /\ IsPair(dist.accepted[n - 1], dist.accepted[n])
                      /\ p \in BridgeRange(dist.accepted[n - 1], dist.accepted[n])

\* The same with the empty anchor at the origin taken as the anchor before
\* the first accepted one, and with the whole query tallied once when the
\* last accepted anchor is as long as the query.
AnchorsTalliedByPairsFromOrigin ==
    pc = "dist" =>
        /\ \A n \in 1..Len(dist.accepted) :
              \A p \in AnchorRange(dist.accepted[n]) :
                 TimesTallied(p) =
                    IF \/ IsPair(Before(n), dist.accepted[n])
                       \/ n < Len(dist.accepted)
                              /\ IsPair(dist.accepted[n], dist.accepted[n + 1])
                       \/ dist.accepted[n].length >= 2 * minLength
                       \/ n = Len(dist.accepted)
                              /\ dist.accepted[n].length >= Len(qry)
                    THEN 1 ELSE 0
        /\ \A p \in 0..(Len(qry) - 1) :
              (\A n \in 1..Len(dist.accepted) :
                   p \notin AnchorRange(dist.accepted[n])) =>
                  TimesTallied(p) =
                     IF \E n \in 1..Len(dist.accepted) :
                           /\ IsPair(Before(n), dist.accepted[n])
                           /\ p \in BridgeRange(Before(n), dist.accepted[n])
                     THEN 1 ELSE 0

\* A call that accepted two anchors, the second a colinear right anchor of
\* the first and the first not colinear with the origin, and tallied both.
PairOfAnchorsTallied ==
    /\ pc = "dist"
    /\ Len(dist.accepted) = 2
    /\ IsPair(dist.accepted[1], dist.accepted[2])
    /\ ~IsPair(EmptyAnchor, dist.accepted[1])
    /\ TimesTallied(dist.accepted[1].pos_Q) = 1
    /\ TimesTallied(dist.accepted[2].pos_Q) = 1


(***************************************************************************)
(* The counting specification: model_count of an aligned pair of strings   *)
(* and model_count_equal of a string, into an empty mutation matrix.       *)
(***************************************************************************)
CountAlphabet == {ChA, ChC, ChG, ChT, ChBang, ChSemi}

\* struct model ret = {.seq_len = query_length, .counts = {0}}.
EmptyMatrix(seq_len) ==
    [seq_len |-> seq_len, counts |-> [i \in 0..(MUTCOUNTS - 1) |-> 0]]

InitCount ==
    /\ pc = "count"
    /\ MODEL \in {M_RAW, M_JC, M_KIMURA, M_LOGDET}
    /\ \/ /\ subject \in Strings(CountAlphabet, 1, MaxPairs)
          /\ qry \in StringsOfLen(CountAlphabet, Len(subject))
       \/ /\ subject = <<>>
          /\ qry \in Strings(CountAlphabet \ {ChSemi}, 0, MaxEqual)
    /\ wild = -1 /\ esa = NoESA
    /\ resCached = NoInterval /\ resPlain = NoInterval
    /\ minLength = 0 /\ dist = NoDist
    /\ ThresholdIdle /\ DriverIdle /\ BootIdle
    /\ RunIdle /\ SeqIdle /\ DescIdle /\ ResIdle /\ LoopIdle

\* model_count(&ret, S, Q, len) on an empty matrix.
ModelCount ==
    /\ pc = "count"
    /\ subject # <<>>
    /\ dist' = [NoDist EXCEPT !.ret = model_count(EmptyMatrix(Len(qry)), subject, 0,
                                                  qry, 0, Len(qry))]
    /\ pc' = "counted"
    /\ UNCHANGED <<resVars, loopVars, runVars, seqVars, descVars, esaVars, matchVars, minLength,
                   MODEL, thresholdVars, driverVars, bootVars>>

\* model_count_equal(&ret, Q, len) on an empty matrix.
ModelCountEqual ==
    /\ pc = "count"
    /\ dist' = [NoDist EXCEPT !.ret = model_count_equal(EmptyMatrix(Len(qry)), MODEL,
                                                        qry, 0, Len(qry))]
    /\ pc' = "equal"
    /\ UNCHANGED <<resVars, loopVars, runVars, seqVars, descVars, esaVars, matchVars, minLength,
                   MODEL, thresholdVars, driverVars, bootVars>>

NextCount == ModelCount \/ ModelCountEqual

SpecCount == InitCount /\ [][NextCount]_vars

\* The cell XtoY of the subject nucleotide X and the query nucleotide Y.
CellOf(X, Y) == 4 * char2code(X) + char2code(Y)

\* The positions of the aligned pair where both bytes are nucleotides.
NucleotidePairs ==
    {k \in 1..Len(qry) : subject[k] \in Nucleotides /\ qry[k] \in Nucleotides}

\* C23: model_count increments, for every position where both bytes are
\* nucleotides, exactly the cell XtoY of the subject byte X and the query
\* byte Y, and a position with a byte below 'A' changes no cell.
CountsBySubjectAndQuery ==
    pc = "counted" =>
        \A i \in 0..(MUTCOUNTS - 1) :
            dist.ret.counts[i] =
                Cardinality({k \in NucleotidePairs : CellOf(subject[k], qry[k]) = i})

\* model_count tallies exactly the positions where both bytes are
\* nucleotides, each once in some cell.
CountsEveryNucleotidePair ==
    pc = "counted" => model_total(dist.ret) = Cardinality(NucleotidePairs)

\* The nucleotides of the query.
NucleotidesOf(str) == {k \in 1..Len(str) : str[k] \in Nucleotides}

\* C24: under every model, model_count_equal adds one to the diagonal cell
\* of each nucleotide of S[0..len) and skips every other byte, so only the
\* diagonal changes and the total grows by the number of nucleotides.
EqualCountsByNucleotide ==
    pc = "equal" =>
        /\ \A i \in 0..(MUTCOUNTS - 1) :
              dist.ret.counts[i] =
                  Cardinality({k \in NucleotidesOf(qry) : CellOf(qry[k], qry[k]) = i})
        /\ model_total(dist.ret) = Cardinality(NucleotidesOf(qry))

\* Under LOGDET it does.
EqualCountsByNucleotideUnderLogdet ==
    (pc = "equal" /\ MODEL = M_LOGDET) =>
        /\ \A i \in 0..(MUTCOUNTS - 1) :
              dist.ret.counts[i] =
                  Cardinality({k \in NucleotidesOf(qry) : CellOf(qry[k], qry[k]) = i})
        /\ model_total(dist.ret) = Cardinality(NucleotidesOf(qry))

\* Under every model only diagonal cells change.
EqualCountsOnDiagonal ==
    pc = "equal" =>
        \A i \in 0..(MUTCOUNTS - 1) :
            i \notin {AtoA, CtoC, GtoG, TtoT} => dist.ret.counts[i] = 0


(***************************************************************************)
(* The cache of lcp-intervals after esa_init_cache.                        *)
(***************************************************************************)
\* Whether ij is a non-empty interval of the ESA whose suffixes all begin
\* with the first ij.l characters of the key.
IsSafeFor(self, ij, key) ==
    /\ ~IsEmpty(ij)
    /\ 0 <= ij.i /\ ij.i <= ij.j /\ ij.j < self.len
    /\ 0 <= ij.l /\ ij.l <= CACHE_LENGTH
    /\ \A k \in ij.i..ij.j : \A p \in 0..(ij.l - 1) :
           At(self.S, self.SA[k] + p) = key[p + 1]

\* Every slot of the cache was written by the depth-first search.
EverySlotWritten ==
    (pc = "esa" /\ qry = <<>>) =>
        \A code \in 0..(Pow4(CACHE_LENGTH) - 1) :
            LastWrite(esa_init_cache_dfs(esa, <<>>, 0, RootInterval(esa)),
                      CacheStr(code),
                      Len(esa_init_cache_dfs(esa, <<>>, 0, RootInterval(esa)))) # 0

\* C25: after esa_init_cache every one of the 4^CACHE_LENGTH slots holds a
\* non-empty lcp-interval for a prefix of the slot's key: its l is at most
\* CACHE_LENGTH and the first l characters of every suffix in its SA range
\* are the first l characters of the key.
CacheSlotsAreSafe ==
    pc # "subject" =>
        \A code \in 0..(Pow4(CACHE_LENGTH) - 1) :
            IsSafeFor(esa, esa.cache[code], CacheStr(code))

\* Every slot that is not empty is safe.
FilledSlotsAreSafe ==
    pc # "subject" =>
        \A code \in 0..(Pow4(CACHE_LENGTH) - 1) :
            ~IsEmpty(esa.cache[code]) =>
                IsSafeFor(esa, esa.cache[code], CacheStr(code))

\* For a subject of nucleotides only, every slot that is not empty is safe.
FilledSlotsAreSafeWithoutBang ==
    (pc # "subject" /\ \A k \in 1..Len(subject) : subject[k] \in Nucleotides) =>
        \A code \in 0..(Pow4(CACHE_LENGTH) - 1) :
            ~IsEmpty(esa.cache[code]) =>
                IsSafeFor(esa, esa.cache[code], CacheStr(code))


(***************************************************************************)
(* The diagonal of the tables.                                             *)
(***************************************************************************)
Models == {M_RAW, M_JC, M_KIMURA, M_LOGDET}

\* C26: the diagonal entry B(i,i) calculate_bootstrap writes is a matrix to
\* which each of the estimators RAW, JC, KIMURA and LOGDET assigns the
\* distance 0, not NaN.
DiagonalEstimatesZero ==
    (pc \in {"loop", "exit"} /\ Len(printed) >= 2) =>
        \A mdl \in Models : estimate(mdl, IdentityModel) = ZeroDistance

\* KIMURA assigns 0 to it.
DiagonalEstimatesZeroUnderKimura ==
    (pc \in {"loop", "exit"} /\ Len(printed) >= 2) =>
        estimate(M_KIMURA, IdentityModel) = ZeroDistance

\* print_distances prints 0 on the diagonal of every matrix without asking
\* the estimator.
PrintedDiagonalIsZero ==
    \A n \in 1..Len(printed) :
        \A cell \in BootCells :
            cell[1] = cell[2] => printed[n].DD[cell] = ZeroDistance


\* C27: for every outcome of the multinomial draw the matrix model_bootstrap
\* returns has the total and the seq_len of its input and is zero in every
\* cell that is zero in the input, and a replicate table is symmetric,
\* B(i,j) = B(j,i), drawn from M(i,j) + M(j,i).
BootstrapKeepsTotals ==
    (pc \in {"loop", "exit"} /\ Len(printed) >= 2) =>
        \A B \in BootTables(counted, BootPairs) :
            \A pair \in BootPairs :
                /\ model_total(B[pair])
                       = model_total(counted[pair])
                             + model_total(counted[<<pair[2], pair[1]>>])
                /\ B[pair].seq_len
                       = counted[pair].seq_len + counted[<<pair[2], pair[1]>>].seq_len
                /\ \A i \in MutationCells :
                       (counted[pair].counts[i] = 0
                            /\ counted[<<pair[2], pair[1]>>].counts[i] = 0)
                           => B[pair].counts[i] = 0
                /\ B[<<pair[2], pair[1]>>] = B[pair]

\* A replicate was printed for a pair whose two matrices have their counts
\* in different cells, so that the draw has more than one outcome.
ResampledPairPrinted ==
    /\ pc = "loop"
    /\ Len(printed) >= 2
    /\ counted[<<0, 1>>].counts[AtoA] = MaxCount
    /\ counted[<<1, 0>>].counts[AtoC] = MaxCount
    /\ Cardinality(BootTables(counted, BootPairs)) > 1


(***************************************************************************)
(* The buffers of one subject: distMatrix allocates RS and the arrays of   *)
(* the ESA for subject i, compares every query with them and frees them.   *)
(***************************************************************************)
\* free(p): NULL is left alone, a live buffer is freed, a freed one stays freed.
Freed(h, b) == IF h[b] = "live" THEN [h EXCEPT ![b] = "freed"] ELSE h

\* What free(p) does wrong, if anything: p was freed before.
FreeFault(h, i, b) ==
    IF h[b] = "freed" THEN {[kind |-> "double free", subject |-> i, buffer |-> b]}
    ELSE {}

\* What dist_anchor does wrong, if anything, when it reads the buffers.
ReadFault(h, i) ==
    {[kind |-> "read after free", subject |-> i, buffer |-> b] :
        b \in {x \in Buffers : h[x] = "freed"}}

\* The buffers the worker leaves allocated when it turns to the next subject.
LeftLive(h, i, path) ==
    {[subject |-> i, buffer |-> b, path |-> path] : b \in {x \in Buffers : h[x] = "live"}}

InitFree ==
    /\ pc = "subject"
    /\ EsaIdle /\ MatchIdle /\ AnchorIdle /\ ThresholdIdle /\ DriverIdle /\ BootIdle
    /\ RunIdle /\ SeqIdle /\ DescIdle /\ ResIdle /\ LoopIdle

\* seq_subject_init(subject): RS = catcomp(S, len).
SubjectAlloc ==
    /\ pc = "subject"
    /\ cur < NSeq
    /\ heap' = [heap EXCEPT !["RS"] = "live"]
    /\ at' = 1
    /\ pc' = "esa_init"
    /\ UNCHANGED <<loopVars, leaked, faults, cur, runVars, seqVars, descVars, esaVars, matchVars,
                   anchorVars, thresholdVars, driverVars, bootVars>>

\* One step of esa_init: esa_init_SA, _LCP, _CLD, _FVC and _cache each
\* allocate their array and return 0.
EsaInitStep ==
    /\ pc = "esa_init"
    /\ at <= Len(AllocOrder)
    /\ heap' = [heap EXCEPT ![AllocOrder[at]] = "live"]
    /\ IF at = Len(AllocOrder)
       THEN pc' = "compare" /\ at' = 0
       ELSE pc' = pc /\ at' = at + 1
    /\ UNCHANGED <<loopVars, leaked, faults, cur, runVars, seqVars, descVars, esaVars, matchVars,
                   anchorVars, thresholdVars, driverVars, bootVars>>

\* esa_init_SA has allocated SA and the suffix sorter returns non-zero:
\* esa_init returns that, distMatrix warns and continues with the next subject.
EsaInitFails ==
    /\ pc = "esa_init"
    /\ at = 2
    /\ warned' = warned \cup {Warning("index", cur, -1)}
    /\ leaked' = leaked \cup LeftLive(heap, cur, "failure")
    /\ heap' = NoHeap
    /\ cur' = cur + 1
    /\ at' = 0
    /\ pc' = "subject"
    /\ UNCHANGED <<loopVars, faults, FLAGS, lens, status, seqVars, descVars, esaVars, matchVars,
                   anchorVars, thresholdVars, driverVars, bootVars>>

\* One turn of the loop over j: dist_anchor(&E, ...) reads RS and the ESA
\* unless j == i.
ReadBuffers ==
    /\ pc = "compare"
    /\ at < NSeq
    /\ faults' = faults \cup (IF at = cur THEN {} ELSE ReadFault(heap, cur))
    /\ IF at + 1 = NSeq
       THEN pc' = "esa_free" /\ at' = 1
       ELSE pc' = pc /\ at' = at + 1
    /\ UNCHANGED <<loopVars, heap, leaked, cur, runVars, seqVars, descVars, esaVars, matchVars,
                   anchorVars, thresholdVars, driverVars, bootVars>>

\* One free of esa_free.
EsaFreeStep ==
    /\ pc = "esa_free"
    /\ at <= Len(FreeOrder)
    /\ faults' = faults \cup FreeFault(heap, cur, FreeOrder[at])
    /\ heap' = Freed(heap, FreeOrder[at])
    /\ IF at = Len(FreeOrder)
       THEN pc' = "subject_free" /\ at' = 0
       ELSE pc' = pc /\ at' = at + 1
    /\ UNCHANGED <<loopVars, leaked, cur, runVars, seqVars, descVars, esaVars, matchVars,
                   anchorVars, thresholdVars, driverVars, bootVars>>

\* seq_subject_free(subject), and the worker turns to the next subject; the
\* estimation in between reads M only.
SubjectFree ==
    /\ pc = "subject_free"
    /\ faults' = faults \cup FreeFault(heap, cur, "RS")
    /\ leaked' = leaked \cup LeftLive(Freed(heap, "RS"), cur, "success")
    /\ heap' = NoHeap
    /\ cur' = cur + 1
    /\ at' = 0
    /\ pc' = "subject"
    /\ UNCHANGED <<loopVars, runVars, seqVars, descVars, esaVars, matchVars,
                   anchorVars, thresholdVars, driverVars, bootVars>>

NextFree ==
    \/ SubjectAlloc
    \/ EsaInitStep
    \/ EsaInitFails
    \/ ReadBuffers
    \/ EsaFreeStep
    \/ SubjectFree

SpecFree == InitFree /\ [][NextFree]_vars

\* C28: whenever the worker turns to its next subject, on the success path
\* and on the failure path of the index construction alike, RS and every
\* ESA buffer of the subject it leaves are freed, no buffer was freed twice
\* and none was read after it was freed.
BuffersFreedOnEveryPath == leaked = {} /\ faults = {}

\* No buffer is freed twice and none is read after it was freed.
NoFreeFaults == faults = {}

\* Only the failure path of the index construction leaves buffers allocated,
\* and it leaves RS and SA.
FailurePathLeaks ==
    /\ \A l \in leaked : l.path = "failure" /\ l.buffer \in {"RS", "SA"}
    /\ (pc = "subject" /\ cur > 0 /\ leaked = {}) => faults = {}

\* A subject has gone the success path and left nothing allocated.
SubjectFreedOnSuccess == pc = "subject" /\ cur > 0 /\ leaked = {}


(***************************************************************************)
(* The loop of dist_anchor, one iteration at a time.                       *)
(***************************************************************************)
\* The longest subject the loop is followed on.
MaxLoopSubject == 4

\* The locals of dist_anchor before the loop: ret, this_match, last_match
\* and last_was_right_anchor.
Locals(query_length) ==
    [NoLoop EXCEPT !.ret = [seq_len |-> query_length,
                            counts |-> [i \in 0..(MUTCOUNTS - 1) |-> 0]]]

InitLoop ==
    /\ pc = "subject"
    /\ wild \in WildValues
    /\ subject \in Strings(AnchorAlphabet, 1, MaxLoopSubject)
    /\ esa = NoESA
    /\ MatchIdle /\ AnchorIdle /\ ThresholdIdle /\ DriverIdle /\ BootIdle
    /\ RunIdle /\ SeqIdle /\ DescIdle /\ ResIdle /\ LoopIdle

\* dist_anchor is called and reaches its loop.
LoopEnter ==
    /\ pc = "esa"
    /\ \E q \in AnchorQueries(subject), t \in Thresholds, mdl \in {M_JC, M_LOGDET} :
          /\ qry' = q
          /\ minLength' = t
          /\ MODEL' = mdl
          /\ loop' = Locals(Len(q))
    /\ turns' = 0
    /\ pc' = "loop"
    /\ UNCHANGED <<dist, resVars, runVars, seqVars, descVars, esaVars, resCached, resPlain,
                   thresholdVars, driverVars, bootVars>>

\* One iteration of the loop: lucky_anchor || anchor, the new anchor if
\* either accepted, and the advance.
LoopTurn ==
    /\ pc = "loop"
    /\ loop.this_match.pos_Q < Len(qry)
    /\ \E st \in {AnchorTry(CallContext, loop,
                           lucky_anchor(CallContext, loop.last_match,
                                        loop.this_match))} :
          loop' = st
    /\ turns' = turns + 1
    /\ UNCHANGED <<pc, dist, resVars, runVars, seqVars, descVars, esaVars, matchVars,
                   minLength, MODEL, thresholdVars, driverVars, bootVars>>

\* The loop condition fails: dist_anchor tallies the last anchor and returns.
LoopReturn ==
    /\ pc = "loop"
    /\ ~(loop.this_match.pos_Q < Len(qry))
    /\ \E st \in {AnchorFinish(CallContext, loop)} : dist' = Returned(st)
    /\ loop' = NoLoop
    /\ pc' = "dist"
    /\ UNCHANGED <<turns, resVars, runVars, seqVars, descVars, esaVars, matchVars,
                   minLength, MODEL, thresholdVars, driverVars, bootVars>>

\* The caller took the matrix; the ESA serves the next query.
LoopDone ==
    /\ pc = "dist"
    /\ turns' = 0
    /\ pc' = "esa"
    /\ qry' = <<>>
    /\ minLength' = 0
    /\ MODEL' = M_JC
    /\ dist' = NoDist
    /\ UNCHANGED <<loop, resVars, runVars, seqVars, descVars, esaVars, resCached, resPlain,
                   thresholdVars, driverVars, bootVars>>

NextLoop == EsaInit \/ LoopEnter \/ LoopTurn \/ LoopReturn \/ LoopDone

SpecLoop == InitLoop /\ [][NextLoop]_vars

\* A step that is an iteration of the loop, and one that is its end, told
\* by the guard and by what only that step changes: a step of NextLoop is
\* an IterationStep exactly if it is a LoopTurn step, and a ReturnStep
\* exactly if it is a LoopReturn step.
IterationStep ==
    pc = "loop" /\ loop.this_match.pos_Q < Len(qry) /\ turns' = turns + 1
ReturnStep ==
    pc = "loop" /\ ~(loop.this_match.pos_Q < Len(qry)) /\ pc' = "dist"

\* The thread that runs dist_anchor is scheduled until it returns: weak
\* fairness of LoopTurn and of LoopReturn.
SpecLoopFair == SpecLoop /\ WF_turns(IterationStep) /\ WF_pc(ReturnStep)

\* The size_t differences lucky_anchor computes at the head of an iteration.
AdvanceOf(st) == st.this_match.pos_Q - st.last_match.pos_Q
GapOf(st) == st.this_match.pos_Q - st.last_match.pos_Q - st.last_match.length

\* In every iteration this.pos_Q grows by the length the iteration found
\* plus one, which is at least one.
PosQGrows ==
    LoopTurn => /\ loop'.this_match.length >= 0
                /\ loop'.this_match.pos_Q
                       = loop.this_match.pos_Q + loop'.this_match.length + 1
                /\ loop'.this_match.pos_Q > loop.this_match.pos_Q

\* At the head of every iteration neither difference of lucky_anchor has
\* wrapped around, and no more than |Q| iterations have been executed.
LoopWithinBounds ==
    pc = "loop" => /\ AdvanceOf(loop) >= 0
                   /\ GapOf(loop) >= 0
                   /\ turns <= Len(qry)
                   /\ turns <= loop.this_match.pos_Q

\* C29: the loop of dist_anchor terminates for every subject and query: in
\* every iteration, lucky or not, accepted or not, this.pos_Q grows by
\* length + 1 >= 1 without a wrap-around of the gap or the advance, so that
\* at most |Q| iterations are executed and dist_anchor returns.
DistAnchorLoopTerminates ==
    /\ []LoopWithinBounds
    /\ [][PosQGrows]_vars
    /\ (pc = "loop") ~> (pc = "dist")

\* A call has returned after more than one iteration: one in which nothing
\* was accepted and one in which the match engine accepted an anchor.
LoopReturnedAfterTurns ==
    /\ pc = "dist"
    /\ turns >= 2
    /\ turns > Len(dist.accepted)
    /\ \E k \in 1..Len(dist.accepted) : ~dist.accepted[k].lucky


(***************************************************************************)
(* The reads of the ESA's arrays: for each function the reads it makes     *)
(* that are outside the array or of an entry never written.                *)
(***************************************************************************)
\* The entries of CLD esa_init_CLD writes: it never reads CLD, so an entry
\* is written exactly if it does not depend on what malloc left there.
CldWritten(self) ==
    {i \in 0..self.len :
        esa_init_CLD(self.LCP, self.len, -7)[i] = esa_init_CLD(self.LCP, self.len, -8)[i]}

\* The read arr[i], if it is outside the array (SA and FVC hold len
\* entries, LCP and CLD len + 1, S len bytes and its NUL) or, for CLD, of an
\* entry in wr's complement.
BadRead(self, wr, arr, i) ==
    IF CASE arr \in {"SA", "FVC"} -> i \in 0..(self.len - 1)
         [] arr \in {"LCP", "S"} -> i \in 0..self.len
         [] arr = "CLD" -> i \in wr
    THEN {}
    ELSE {[array |-> arr, index |-> i]}

\* S[SA[i] + l].
BadLabelRead(self, wr, i, l) ==
    BadRead(self, wr, "SA", i) \cup BadRead(self, wr, "S", SAat(self, i) + l)

\* esa_init_FVC: S[SA[i] + LCP[i]] for every i below len.
FVCReads(self, wr) ==
    UNION {BadRead(self, wr, "LCP", i) \cup BadLabelRead(self, wr, i, LCPat(self, i)) :
             i \in 0..(self.len - 1)}

\* The reads of the "final sanity check" of get_interval.
FinalReads(self, wr, ij, a, i, m) ==
    (IF i # ij.i THEN BadRead(self, wr, "FVC", i)
                 ELSE BadLabelRead(self, wr, i, ij.l))
    \cup (IF IsEmpty(IntervalFinal(self, ij, a, i, m)) THEN {}
          ELSE BadRead(self, wr, "LCP", m))

\* The reads of the do-while of get_interval.
RECURSIVE LoopReads(_, _, _, _, _, _, _)
LoopReads(self, wr, ij, a, i, m, c) ==
    IF c = a
    THEN BadRead(self, wr, "CLD", m - 1)
         \cup BadRead(self, wr, "LCP", CLDat(self, m - 1))
    ELSE IF c > a THEN FinalReads(self, wr, ij, a, i, m)
    ELSE IF m = ij.j THEN FinalReads(self, wr, ij, a, m, m)
    ELSE LET m2 == CLDat(self, m)
         IN  BadRead(self, wr, "CLD", m) \cup BadRead(self, wr, "LCP", m2)
             \cup (IF LCPat(self, m2) = ij.l
                   THEN BadRead(self, wr, "FVC", m)
                        \cup LoopReads(self, wr, ij, a, m, m2, FVCat(self, m))
                   ELSE FinalReads(self, wr, ij, a, m, m2))

\* The reads of get_interval.
IntervalReads(self, wr, ij, a) ==
    BadLabelRead(self, wr, ij.i, ij.l)
    \cup (IF ij.i = ij.j THEN {}
          ELSE LoopReads(self, wr, ij, a, ij.i, ij.m,
                         Sat(self, SAat(self, ij.i) + ij.l)))

\* The reads S[p + k] for k from lo to hi.
ExtendReads(self, wr, p, lo, hi) ==
    UNION {BadRead(self, wr, "S", p + k) : k \in lo..hi}

\* The reads of the do-while of get_match_from.
RECURSIVE MatchLoopReads(_, _, _, _, _, _)
MatchLoopReads(self, wr, query, qlen, k, ij) ==
    LET ij2 == get_interval(self, ij, At(query, k))
        l == IF ij2.i < ij2.j /\ ij2.l < qlen THEN ij2.l ELSE qlen
        e == MatchExtend(self, query, SAat(self, ij2.i), k + 1, l)
    IN  IntervalReads(self, wr, ij, At(query, k))
        \cup (IF IsEmpty(ij2) THEN {}
              ELSE BadRead(self, wr, "SA", ij2.i)
                   \cup ExtendReads(self, wr, SAat(self, ij2.i), k + 1,
                                    IF e.mismatch THEN e.k ELSE e.k - 1)
                   \cup (IF ~e.mismatch /\ e.k < qlen
                         THEN MatchLoopReads(self, wr, query, qlen, e.k, ij2)
                         ELSE {}))

\* The reads of get_match_from; the singleton branch reads S[p + k] up to
\* the byte that ends its loop, if k < qlen lets it read one.
MatchFromReads(self, wr, query, qlen, k, ij) ==
    IF IsEmpty(ij) THEN {}
    ELSE IF ij.i = ij.j
    THEN BadRead(self, wr, "SA", ij.i)
         \cup (IF ij.l < 0 THEN {}
               ELSE LET e == SingletonExtend(self, query, qlen, SAat(self, ij.i), ij.l)
                    IN  ExtendReads(self, wr, SAat(self, ij.i), ij.l,
                                    IF e < qlen THEN e ELSE e - 1))
    ELSE MatchLoopReads(self, wr, query, qlen, k, ij)

\* The reads that build the root interval: L(CLD, len) and LCP[m].
RootReads(self, wr) ==
    BadRead(self, wr, "CLD", self.len - 1)
    \cup BadRead(self, wr, "LCP", CLDat(self, self.len - 1))

\* The reads of get_match and of get_match_cached.
MatchReads(self, wr, query, qlen) ==
    RootReads(self, wr) \cup MatchFromReads(self, wr, query, qlen, 0, RootInterval(self))

CachedReads(self, wr, query, qlen) ==
    IF qlen <= CACHE_LENGTH \/ \E i \in 1..CACHE_LENGTH : char2code(query[i]) < 0
    THEN MatchReads(self, wr, query, qlen)
    ELSE LET ij == self.cache[CacheCode(query, CACHE_LENGTH)]
         IN  IF IsEmpty(ij) THEN MatchReads(self, wr, query, qlen)
             ELSE MatchFromReads(self, wr, query, qlen, ij.l, ij)

\* The reads of esa_init_cache_dfs; CodeReads is the body of its loop.
RECURSIVE DfsReads(_, _, _, _, _)
RECURSIVE CodeReads(_, _, _, _, _, _)
CodeReads(self, wr, str, pos, in, code) ==
    LET str1 == Append(str, code2char(code))
        ij == get_interval(self, in, code2char(code))
        ff == FastForward(self, str1, pos + 1, ij)
    IN  IntervalReads(self, wr, in, code2char(code))
        \cup (IF IsEmpty(ij) THEN {}
              ELSE IF ij.l <= pos + 1 THEN DfsReads(self, wr, str1, pos + 1, ij)
              ELSE IF ij.l >= CACHE_LENGTH THEN {}
              ELSE BadRead(self, wr, "SA", ij.i)
                   \cup ExtendReads(self, wr, SAat(self, ij.i), pos + 1,
                                    IF ff.non_acgt THEN ff.k ELSE ff.k - 1)
                   \cup (IF ff.non_acgt THEN {}
                         ELSE DfsReads(self, wr, ff.str, ff.k, ij)))

DfsReads(self, wr, str, pos, in) ==
    IF IsEmpty(in) \/ pos >= CACHE_LENGTH THEN {}
    ELSE UNION {CodeReads(self, wr, str, pos, in, code) : code \in 0..3}

\* The reads of esa_init_cache.
CacheReads(self, wr) ==
    RootReads(self, wr) \cup DfsReads(self, wr, <<>>, 0, RootInterval(self))

\* C30: esa_init_FVC, esa_init_cache, get_interval and get_match_from
\* read SA and FVC only within [0, n), LCP, CLD and RS only within [0, n],
\* and no entry of CLD that esa_init_CLD has not written.
EsaReadsAreSafe ==
    pc # "subject" =>
        LET wr == CldWritten(esa)
        IN  /\ FVCReads(esa, wr) = {}
            /\ CacheReads(esa, wr) = {}
            /\ pc = "matched" => /\ MatchReads(esa, wr, qry, Len(qry)) = {}
                                 /\ CachedReads(esa, wr, qry, Len(qry)) = {}

\* The parts of C30, one function each.
FVCReadsAreSafe == pc # "subject" => FVCReads(esa, CldWritten(esa)) = {}
CacheReadsAreSafe == pc # "subject" => CacheReads(esa, CldWritten(esa)) = {}
MatchReadsAreSafe ==
    pc = "matched" => MatchReads(esa, CldWritten(esa), qry, Len(qry)) = {}
CachedReadsAreSafe ==
    pc = "matched" => CachedReads(esa, CldWritten(esa), qry, Len(qry)) = {}


\* Every read outside an array is the read LCP[len + 1] that follows
\* L(CLD, m) = R(CLD, 0) = len + 1; no entry of CLD is read unwritten.
UnsafeReadsAreOfLCPEnd ==
    pc = "matched" =>
        \A r \in MatchReads(esa, CldWritten(esa), qry, Len(qry))
                   \cup CachedReads(esa, CldWritten(esa), qry, Len(qry)) :
           r = [array |-> "LCP", index |-> esa.len + 1]

=============================================================================
